---- MODULE Spec2Model ----
(***************************************************************************)
(* The sawtooth-bond subscriber: Subscriber::start receives event lists    *)
(* from the validator, EventHandler::parse_events turns the state changes  *)
(* of one block into TransactionType operations, and                       *)
(* DataManager::execute_transactions_in_block applies them to the          *)
(* versioned tables inside one database transaction, dealing with forks    *)
(* and duplicate blocks.                                                   *)
(*                                                                         *)
(* A table is the sequence of its rows in insertion order (the order a     *)
(* plain `load` returns them in the tests).  No uniqueness constraint of   *)
(* the schema is assumed: what keeps rows unique is the code.              *)
(***************************************************************************)
EXTENDS Integers, Sequences, FiniteSets, TLC

(***************************************************************************)
(* Bounds of the model.                                                    *)
(***************************************************************************)
MaxBlockNum == 2
MaxChanges == 2
MaxRows == 3

(***************************************************************************)
(* data_manager.rs: MAX_BLOCK_NUM is i64::MAX.  It is only ever compared,  *)
(* never added to, so the largest 32-bit integer stands for it.            *)
(***************************************************************************)
MAX_BLOCK_NUM == 2147483647

VersionedTables ==
    {"organizations", "participants", "bonds", "corporate_debt_ratings",
     "holdings", "orders", "quotes", "settlements", "receipts",
     "authorizations"}

Tables == VersionedTables \cup {"blocks"}

EmptyDb == [t \in Tables |-> <<>>]

(***************************************************************************)
(* The store.  A connection inside a transaction is                        *)
(*   [db, steps, fail_at, ok]:                                             *)
(* db is the working copy, steps counts the statements executed so far,    *)
(* fail_at is the set of indices of the statements the store fails, and    *)
(* ok turns FALSE at the first Err, after which `?` skips everything.      *)
(***************************************************************************)
NoFailure == {}

Connect(db, fail_at) ==
    [db |-> db, steps |-> 0, fail_at |-> fail_at, ok |-> TRUE]

\* A statement whose Err is dropped instead of returned.
execute_unchecked(st, newdb) ==
    IF ~st.ok THEN st
    ELSE IF st.steps \in st.fail_at THEN [st EXCEPT !.steps = @ + 1]
    ELSE [st EXCEPT !.db = newdb, !.steps = @ + 1]

execute(st, newdb) ==
    IF ~st.ok THEN st
    ELSE IF st.steps \in st.fail_at THEN [st EXCEPT !.ok = FALSE]
    ELSE [st EXCEPT !.db = newdb, !.steps = @ + 1]

InsertInto(db, table, row) ==
    [db EXCEPT ![table] = Append(@, row)]

\* The rows of a table, as a query filters them.
Rows(db, table) == {db[table][i] : i \in 1..Len(db[table])}

\* diesel::update(query).set(end_block_num.eq(n)): query is the set of rows
\* the filters of the query select.
SetEndWhere(db, table, query, n) ==
    [db EXCEPT ![table] =
        [i \in 1..Len(db[table]) |->
            IF db[table][i] \in query
            THEN [db[table][i] EXCEPT !.end_block_num = n]
            ELSE db[table][i]]]

\* diesel::delete(query)
DeleteWhere(db, table, query) ==
    [db EXCEPT ![table] = SelectSeq(@, LAMBDA r : r \notin query)]

(***************************************************************************)
(* DataManager (database/src/data_manager.rs).  Every function takes the   *)
(* connection and returns it; a Result's Err is ok = FALSE.                *)
(***************************************************************************)
\* An insert that replaces the recorded row of the block number (an upsert).
insert_block_or_replace(st, block) ==
    execute(st, InsertInto(
        DeleteWhere(st.db, "blocks",
            {r \in Rows(st.db, "blocks") : r.block_num = block.block_num}),
        "blocks", block))

insert_block(st, block) ==
    execute(st, InsertInto(st.db, "blocks", block))

BlocksFound(db, block_num) ==
    SelectSeq(db["blocks"], LAMBDA b : b.block_num = block_num)

\* A lookup that also finds a block recorded above the block number.
get_block_at_or_above(st, block_num) ==
    LET found == SelectSeq(st.db["blocks"], LAMBDA b : b.block_num >= block_num)
    IN  [st |-> execute(st, st.db),
         is_some |-> found # <<>>,
         block |-> IF found # <<>> THEN Head(found) ELSE [block_num |-> block_num, block_id |-> "none"]]

\* A lookup that never finds the block.
block_never_found(st, block_num) ==
    [st |-> execute(st, st.db),
     is_some |-> FALSE,
     block |-> [block_num |-> block_num, block_id |-> "none"]]

\* The load is a statement of the store; the value is Some(first row) or None.
get_block_if_exists(st, block_num) ==
    LET found == BlocksFound(st.db, block_num)
    IN  [st |-> execute(st, st.db),
         is_some |-> found # <<>>,
         block |-> IF found # <<>> THEN Head(found) ELSE [block_num |-> block_num, block_id |-> "none"]]

\* A comparison that takes every recorded block for another branch.
always_fork(block_in_db, block_to_be_inserted) == TRUE

is_fork(block_in_db, block_to_be_inserted) ==
    IF block_in_db.block_id = block_to_be_inserted.block_id THEN FALSE ELSE TRUE

\* A close that does not look at the participant.
close_authorizations_of_organization(st, organization_id, participant_public_key, current_block_num) ==
    execute(st, SetEndWhere(st.db, "authorizations",
        {r \in Rows(st.db, "authorizations") :
            /\ r.organization_id = organization_id
            /\ r.end_block_num = MAX_BLOCK_NUM},
        current_block_num))

update_authorization(st, organization_id, participant_public_key, current_block_num) ==
    execute(st, SetEndWhere(st.db, "authorizations",
        {r \in Rows(st.db, "authorizations") :
            /\ r.organization_id = organization_id
            /\ r.participant_public_key = participant_public_key
            /\ r.end_block_num = MAX_BLOCK_NUM},
        current_block_num))

insert_authorization(st, authorization) ==
    LET s1 == update_authorization(st, authorization.organization_id,
                  authorization.participant_public_key, authorization.start_block_num)
    IN  execute(s1, InsertInto(s1.db, "authorizations", authorization))

\* An insert that does nothing when the bond has a row already.
insert_bond_unless_present(st, bond) ==
    IF \E r \in Rows(st.db, "bonds") : r.bond_id = bond.bond_id
    THEN execute(st, st.db)
    ELSE execute(st, InsertInto(st.db, "bonds", bond))

insert_bond(st, bond) ==
    execute(st, InsertInto(st.db, "bonds", bond))

insert_corp_dept_ratings(st, corp_dept_ratings) ==
    execute(st, InsertInto(st.db, "corporate_debt_ratings", corp_dept_ratings))

insert_holding(st, holding) ==
    execute(st, InsertInto(st.db, "holdings", holding))

\* A close that does not look at the address.
close_every_holding(st, address, current_block_num, max_block_num) ==
    execute(st, SetEndWhere(st.db, "holdings",
        {r \in Rows(st.db, "holdings") : r.end_block_num = max_block_num},
        current_block_num))

update_holding(st, address, current_block_num, max_block_num) ==
    execute(st, SetEndWhere(st.db, "holdings",
        {r \in Rows(st.db, "holdings") : r.address = address /\ r.end_block_num = max_block_num},
        current_block_num))

insert_order(st, order) ==
    execute(st, InsertInto(st.db, "orders", order))

\* A replacement: the open row of the organization is deleted, not closed.
delete_organization(st, organization_id, current_block_num, max_block_num) ==
    execute(st, DeleteWhere(st.db, "organizations",
        {r \in Rows(st.db, "organizations") : r.end_block_num = max_block_num /\ r.organization_id = organization_id}))

update_organization(st, organization_id, current_block_num, max_block_num) ==
    execute(st, SetEndWhere(st.db, "organizations",
        {r \in Rows(st.db, "organizations") : r.end_block_num = max_block_num /\ r.organization_id = organization_id},
        current_block_num))

insert_organization(st, organization) ==
    LET s1 == update_organization(st, organization.organization_id,
                  organization.start_block_num, organization.end_block_num)
    IN  execute(s1, InsertInto(s1.db, "organizations", organization))

\* A close that does not look at the public key.
close_every_participant(st, public_key, current_block_num, max_block_num) ==
    execute(st, SetEndWhere(st.db, "participants",
        {r \in Rows(st.db, "participants") : r.end_block_num = max_block_num},
        current_block_num))

update_participant(st, public_key, current_block_num, max_block_num) ==
    execute(st, SetEndWhere(st.db, "participants",
        {r \in Rows(st.db, "participants") : r.end_block_num = max_block_num /\ r.public_key = public_key},
        current_block_num))

insert_participant(st, participant) ==
    LET s1 == update_participant(st, participant.public_key,
                  participant.start_block_num, participant.end_block_num)
    IN  execute(s1, InsertInto(s1.db, "participants", participant))

insert_quote(st, quote) ==
    execute(st, InsertInto(st.db, "quotes", quote))

insert_settlement(st, settlement) ==
    execute(st, InsertInto(st.db, "settlements", settlement))

insert_receipt(st, receipt) ==
    execute(st, InsertInto(st.db, "receipts", receipt))

(***************************************************************************)
(* drop_fork: three statements.  chain_record is the parent of the ten     *)
(* versioned tables, so a statement on it acts on the rows of all of them  *)
(* (test_drop_fork).                                                       *)
(***************************************************************************)
\* A deletion of the open rows only.
DeleteOpenChainRecords(db, block_num) ==
    [t \in Tables |->
        IF t \in VersionedTables
        THEN SelectSeq(db[t], LAMBDA r : ~(r.start_block_num >= block_num
                                           /\ r.end_block_num = MAX_BLOCK_NUM))
        ELSE db[t]]

\* A deletion that spares the rows that start at block_num itself.
\* A rollback that deletes no versioned row.
DeleteNoChainRecords(db, block_num) == db

DeleteChainRecordsAbove(db, block_num) ==
    [t \in Tables |->
        IF t \in VersionedTables
        THEN SelectSeq(db[t], LAMBDA r : ~(r.start_block_num > block_num))
        ELSE db[t]]

DeleteChainRecords(db, block_num) ==
    [t \in Tables |->
        IF t \in VersionedTables
        THEN SelectSeq(db[t], LAMBDA r : ~(r.start_block_num >= block_num))
        ELSE db[t]]

\* A rollback that reopens no row.
ReopenNothing(db, block_num) == db

\* A reopening that spares the rows that ended at block_num itself.
ReopenChainRecordsAbove(db, block_num) ==
    [t \in Tables |->
        IF t \in VersionedTables
        THEN [i \in 1..Len(db[t]) |->
                IF db[t][i].end_block_num > block_num
                THEN [db[t][i] EXCEPT !.end_block_num = MAX_BLOCK_NUM]
                ELSE db[t][i]]
        ELSE db[t]]

ReopenChainRecords(db, block_num) ==
    [t \in Tables |->
        IF t \in VersionedTables
        THEN [i \in 1..Len(db[t]) |->
                IF db[t][i].end_block_num >= block_num
                THEN [db[t][i] EXCEPT !.end_block_num = MAX_BLOCK_NUM]
                ELSE db[t][i]]
        ELSE db[t]]

\* A deletion of one block, the newest, of those at block_num or above.
DeleteNewestBlock(db, block_num) ==
    DeleteWhere(db, "blocks",
        {b \in Rows(db, "blocks") :
            /\ b.block_num >= block_num
            /\ \A c \in Rows(db, "blocks") : c.block_num <= b.block_num})

\* A deletion of the block at block_num alone.
DeleteBlockAt(db, block_num) ==
    DeleteWhere(db, "blocks",
        {b \in Rows(db, "blocks") : b.block_num = block_num})

\* A deletion that spares the block at block_num itself.
DeleteBlocksAbove(db, block_num) ==
    DeleteWhere(db, "blocks",
        {b \in Rows(db, "blocks") : b.block_num > block_num})

DeleteBlocks(db, block_num) ==
    DeleteWhere(db, "blocks",
        {b \in Rows(db, "blocks") : b.block_num >= block_num})

drop_fork(st, block_num) ==
    LET s1 == execute(st, DeleteChainRecords(st.db, block_num))
        s2 == execute(s1, ReopenChainRecords(s1.db, block_num))
    IN  execute(s2, DeleteBlocks(s2.db, block_num))

RECURSIVE insert_each(_, _, _)
\* `for x in list { self.insert_x(&x)?; }` of execute_transaction
insert_each(st, table, rows) ==
    IF rows = <<>> THEN st
    ELSE insert_each(
            IF table = "authorizations"
            THEN insert_authorization(st, Head(rows))
            ELSE insert_corp_dept_ratings(st, Head(rows)),
            table, Tail(rows))

execute_transaction(st, transaction) ==
    CASE transaction.type = "InsertBond" ->
            insert_each(insert_bond(st, transaction.bond),
                        "corporate_debt_ratings", transaction.corp_dept_ratings)
      [] transaction.type = "InsertHolding" ->
            insert_holding(st, transaction.holding)
      [] transaction.type = "UpdateHolding" ->
            update_holding(st, transaction.address, transaction.current_block_num,
                           transaction.max_block_num)
      [] transaction.type = "InsertOrder" ->
            insert_order(st, transaction.order)
      [] transaction.type = "InsertOrganization" ->
            insert_each(insert_organization(st, transaction.org),
                        "authorizations", transaction.authorizations)
      [] transaction.type = "InsertParticipant" ->
            insert_participant(st, transaction.participant)
      [] transaction.type = "InsertQuote" ->
            insert_quote(st, transaction.quote)
      [] transaction.type = "InsertSettlement" ->
            insert_settlement(st, transaction.settlement)
      [] transaction.type = "InsertReceipt" ->
            insert_receipt(st, transaction.receipt)

RECURSIVE execute_all_from_the_end(_, _)
\* A loop that takes the transactions from the end of the list.
execute_all_from_the_end(st, transactions) ==
    IF transactions = <<>> THEN st
    ELSE execute_all_from_the_end(
            execute_transaction(st, transactions[Len(transactions)]),
            SubSeq(transactions, 1, Len(transactions) - 1))

RECURSIVE execute_all(_, _)
\* `for transaction in transactions { self.execute_transaction(transaction)?; }`
execute_all(st, transactions) ==
    IF transactions = <<>> THEN st
    ELSE execute_all(execute_transaction(st, Head(transactions)), Tail(transactions))

(***************************************************************************)
(* conn.transaction: COMMIT the working copy when the closure returns Ok,  *)
(* ROLLBACK to the state before BEGIN when it returns Err.                 *)
(***************************************************************************)
\* A store without transactions: what a statement wrote stays written.
no_rollback(before, st) == st.db

transaction(before, st) ==
    IF st.ok THEN st.db ELSE before

(***************************************************************************)
(* execute_transactions_in_block(transactions, block), with the store      *)
(* failing the statements numbered in fail_at.                             *)
(*                                                                         *)
(* closure is the body of the closure handed to conn.transaction after its *)
(* first line, given what get_block_if_exists answered (lookup); its value *)
(* is the connection the closure ends with.  `?` on a failed lookup is     *)
(* covered by execute, which skips every statement after an Err.           *)
(***************************************************************************)
\* A closure that returns an Err for a duplicate.
closure_duplicate_is_err(lookup, transactions, block) ==
    IF lookup.is_some
    THEN IF is_fork(lookup.block, block)
         THEN insert_block(
                  execute_all(drop_fork(lookup.st, block.block_num), transactions),
                  block)
         ELSE [lookup.st EXCEPT !.ok = FALSE]
    ELSE insert_block(execute_all(lookup.st, transactions), block)

closure(lookup, transactions, block) ==
    IF lookup.is_some
    THEN IF is_fork(lookup.block, block)
         THEN insert_block(
                  execute_all(drop_fork(lookup.st, block.block_num), transactions),
                  block)
         ELSE lookup.st
    ELSE insert_block(execute_all(lookup.st, transactions), block)

\* The path the closure took (a Result does not carry it).
path_taken(lookup, block) ==
    IF ~lookup.st.ok THEN "LOOKUP"
    ELSE IF ~lookup.is_some THEN "NEW"
    ELSE IF is_fork(lookup.block, block) THEN "FORK"
    ELSE "DUPLICATE"

\* What a call leaves behind: the store afterwards (db), the working copy
\* the closure ended with (work), the Result, the path and the number of
\* statements executed.
outcome(before, path, final) ==
    [db     |-> transaction(before, final),
     work   |-> final.db,
     result |-> IF final.ok THEN "ok" ELSE "store_err",
     path   |-> path,
     steps  |-> final.steps]

in_transaction(before, lookup, transactions, block) ==
    outcome(before, path_taken(lookup, block), closure(lookup, transactions, block))

execute_transactions_in_block(db, transactions, block, fail_at) ==
    in_transaction(db, get_block_if_exists(Connect(db, fail_at), block.block_num),
                   transactions, block)

(***************************************************************************)
(* addressing.rs.  A string is the sequence of its characters.             *)
(* hash(object, num) is the first num characters of the 64 hex characters  *)
(* of SHA-256(object).  The first 6 characters of the digests of the       *)
(* family and entity type names are the real ones; every other character   *)
(* of a digest is a symbol of its own, naming what was hashed and the      *)
(* position.                                                               *)
(***************************************************************************)
FAMILY_NAMESPACE == "bond namespace"
ORGANIZATION == "organization"
PARTICIPANT == "participant"
BOND == "bond"
HOLDING == "holding"
SETTLEMENT == "settlement"
RECEIPT == "receipt"
ORDER == "order"
QUOTE == "quote"

PREFIX_SIZE == 6

Sha256Hex6 ==
    [n \in {FAMILY_NAMESPACE, ORGANIZATION, PARTICIPANT, BOND, HOLDING,
            SETTLEMENT, RECEIPT, ORDER, QUOTE} |->
        CASE n = FAMILY_NAMESPACE -> <<"d", "1", "6", "f", "4", "b">>
          [] n = ORGANIZATION -> <<"a", "f", "3", "a", "1", "b">>
          [] n = PARTICIPANT -> <<"c", "0", "c", "d", "e", "0">>
          [] n = BOND -> <<"f", "2", "1", "d", "e", "a">>
          [] n = HOLDING -> <<"e", "7", "7", "b", "1", "4">>
          [] n = SETTLEMENT -> <<"a", "7", "5", "c", "4", "3">>
          [] n = RECEIPT -> <<"6", "f", "3", "2", "8", "6">>
          [] n = ORDER -> <<"3", "e", "e", "b", "7", "e">>
          [] n = QUOTE -> <<"6", "3", "2", "7", "2", "4">>]

\* Character i of sha.result_str() for the input object.
DigestChar(object, i) ==
    IF object \in DOMAIN Sha256Hex6 /\ i <= PREFIX_SIZE
    THEN Sha256Hex6[object][i]
    ELSE "#" \o object \o "." \o ToString(i)

\* The whole digest, not cut to num characters.
hash_untruncated(object, num) ==
    [i \in 1..64 |-> DigestChar(object, i)]

\* sha.result_str()[..num]
hash(object, num) ==
    [i \in 1..num |-> DigestChar(object, i)]

get_bond_namespace == hash(FAMILY_NAMESPACE, PREFIX_SIZE)

make_organization_address(organization_id) ==
    get_bond_namespace \o hash(ORGANIZATION, PREFIX_SIZE) \o hash(organization_id, 58)

make_participant_address(public_key) ==
    get_bond_namespace \o hash(PARTICIPANT, PREFIX_SIZE) \o hash(public_key, 58)

make_bond_address(bond_id) ==
    get_bond_namespace \o hash(BOND, PREFIX_SIZE) \o hash(bond_id, 58)

make_holding_address(organization_id, asset_id) ==
    get_bond_namespace \o hash(HOLDING, PREFIX_SIZE)
        \o hash(organization_id, 22) \o hash(asset_id, 36)

make_settlement_address(organization_id, order_id) ==
    get_bond_namespace \o hash(SETTLEMENT, PREFIX_SIZE)
        \o hash(organization_id, 22) \o hash(order_id, 36)

make_receipt_address(organization_id, bond_id) ==
    get_bond_namespace \o hash(RECEIPT, PREFIX_SIZE)
        \o hash(organization_id, 22) \o hash(bond_id, 36)

make_quote_address(organization_id, bond_id) ==
    get_bond_namespace \o hash(QUOTE, PREFIX_SIZE)
        \o hash(organization_id, 22) \o hash(bond_id, 36)

make_order_address(organization_id, bond_id) ==
    get_bond_namespace \o hash(ORDER, PREFIX_SIZE)
        \o hash(organization_id, 22) \o hash(bond_id, 36)

\* A classification that slices the namespace prefix instead of the infix.
get_address_type_of_prefix(address) ==
    IF Len(address) < PREFIX_SIZE THEN "PANIC"
    ELSE LET prefix == SubSeq(address, 1, PREFIX_SIZE)
         IN  IF prefix = hash(ORGANIZATION, PREFIX_SIZE) THEN "ORGANIZATION"
             ELSE IF prefix = hash(PARTICIPANT, PREFIX_SIZE) THEN "PARTICIPANT"
             ELSE IF prefix = hash(SETTLEMENT, PREFIX_SIZE) THEN "SETTLEMENT"
             ELSE IF prefix = hash(HOLDING, PREFIX_SIZE) THEN "HOLDING"
             ELSE IF prefix = hash(RECEIPT, PREFIX_SIZE) THEN "RECEIPT"
             ELSE IF prefix = hash(ORDER, PREFIX_SIZE) THEN "ORDER"
             ELSE IF prefix = hash(QUOTE, PREFIX_SIZE) THEN "QUOTE"
             ELSE IF prefix = hash(BOND, PREFIX_SIZE) THEN "BOND"
             ELSE "ANOTHER_FAMILY"

\* &address[PREFIX_SIZE..PREFIX_SIZE*2] panics when the address is shorter
\* than the slice; the value is then "PANIC".
get_address_type(address) ==
    IF Len(address) < PREFIX_SIZE * 2 THEN "PANIC"
    ELSE LET infix == SubSeq(address, PREFIX_SIZE + 1, PREFIX_SIZE * 2)
         IN  IF infix = hash(ORGANIZATION, PREFIX_SIZE) THEN "ORGANIZATION"
             ELSE IF infix = hash(PARTICIPANT, PREFIX_SIZE) THEN "PARTICIPANT"
             ELSE IF infix = hash(SETTLEMENT, PREFIX_SIZE) THEN "SETTLEMENT"
             ELSE IF infix = hash(HOLDING, PREFIX_SIZE) THEN "HOLDING"
             ELSE IF infix = hash(RECEIPT, PREFIX_SIZE) THEN "RECEIPT"
             ELSE IF infix = hash(ORDER, PREFIX_SIZE) THEN "ORDER"
             ELSE IF infix = hash(QUOTE, PREFIX_SIZE) THEN "QUOTE"
             ELSE IF infix = hash(BOND, PREFIX_SIZE) THEN "BOND"
             ELSE "ANOTHER_FAMILY"

(***************************************************************************)
(* EventHandler (subscriber/src/event_handler.rs).                         *)
(* A state change is [address, value, field_type]; its value bytes are     *)
(* [decodes, msg]: whether protobuf parses them as the message type of the *)
(* address, and the message they then decode to.                           *)
(***************************************************************************)
\* The characters Regex "^000000" looks for at the start of an address.
NamespaceRegexPrefix == <<"0", "0", "0", "0", "0", "0">>

get_namespace_regex_is_match(address) ==
    /\ Len(address) >= Len(NamespaceRegexPrefix)
    /\ SubSeq(address, 1, Len(NamespaceRegexPrefix)) = NamespaceRegexPrefix

\* parse_state_delta_events: the state changes whose address matches, in order.
parse_state_delta_events(state_changes) ==
    SelectSeq(state_changes, LAMBDA c : get_namespace_regex_is_match(c.address))

unpack_data(value) ==
    [ok |-> value.decodes, msg |-> value.msg]

get_new_organization(org, block) ==
    [organization_id |-> org.organization_id,
     start_block_num |-> block.block_num,
     end_block_num |-> MAX_BLOCK_NUM]

\* RoleEnum of the row for a role of the message (the enum spells it so).
RoleEnum(role) ==
    IF role = "MARKETMAKER" THEN "MAKERTMAKER" ELSE "TRADER"

\* A loop that pushes each row at the front of the list.
get_new_authorization_reversed(auths, block, organization_id) ==
    [i \in 1..Len(auths) |->
        [organization_id |-> organization_id,
         participant_public_key |-> auths[Len(auths) + 1 - i].public_key,
         role |-> RoleEnum(auths[Len(auths) + 1 - i].role),
         start_block_num |-> block.block_num,
         end_block_num |-> MAX_BLOCK_NUM]]

get_new_authorization(auths, block, organization_id) ==
    [i \in 1..Len(auths) |->
        [organization_id |-> organization_id,
         participant_public_key |-> auths[i].public_key,
         role |-> RoleEnum(auths[i].role),
         start_block_num |-> block.block_num,
         end_block_num |-> MAX_BLOCK_NUM]]

get_new_participant(participant, block) ==
    [public_key |-> participant.public_key,
     organization_id |-> participant.organization_id,
     start_block_num |-> block.block_num,
     end_block_num |-> MAX_BLOCK_NUM]

\* A row that is stamped the other way round.
get_new_settlement_swapped(settlement, block) ==
    [order_id |-> settlement.order_id,
     start_block_num |-> MAX_BLOCK_NUM,
     end_block_num |-> block.block_num]

get_new_settlement(settlement, block) ==
    [order_id |-> settlement.order_id,
     start_block_num |-> block.block_num,
     end_block_num |-> MAX_BLOCK_NUM]

\* A row whose address is derived from the holding, not the one of the
\* state change.
get_new_holding_derived_address(holding, block, address) ==
    [owner_organization_id |-> holding.organization_id,
     asset_id |-> holding.asset_id,
     start_block_num |-> block.block_num,
     end_block_num |-> MAX_BLOCK_NUM,
     address |-> make_holding_address(holding.organization_id, holding.asset_id)]

get_new_holding(holding, block, address) ==
    [owner_organization_id |-> holding.organization_id,
     asset_id |-> holding.asset_id,
     start_block_num |-> block.block_num,
     end_block_num |-> MAX_BLOCK_NUM,
     address |-> address]

get_new_order(order, block) ==
    [bond_id |-> order.order_id,
     ordering_organization_id |-> order.ordering_organization_id,
     order_id |-> order.order_id,
     start_block_num |-> block.block_num,
     end_block_num |-> MAX_BLOCK_NUM]

get_new_bond(bond, block) ==
    [bond_id |-> bond.bond_id,
     start_block_num |-> block.block_num,
     end_block_num |-> MAX_BLOCK_NUM]

get_new_corporate_debt_ratings(ratings, block, bond_id) ==
    [i \in 1..Len(ratings) |->
        [bond_id |-> bond_id,
         agency |-> ratings[i].agency,
         start_block_num |-> block.block_num,
         end_block_num |-> MAX_BLOCK_NUM]]

get_new_receipt(receipt, block) ==
    [payee_organization_id |-> receipt.organization_id,
     bond_id |-> receipt.bond_id,
     start_block_num |-> block.block_num,
     end_block_num |-> MAX_BLOCK_NUM]

get_new_quote(quote, block) ==
    [bond_id |-> quote.bond_id,
     organization_id |-> quote.organization_id,
     start_block_num |-> block.block_num,
     end_block_num |-> MAX_BLOCK_NUM]

\* A Result: Err(String) is ok = FALSE.  The match has no arm for
\* ANOTHER_FAMILY; such a state change yields no operation ("no_arm"), and
\* neither does one whose classification panics ("panic").
ParseErr(why) == [ok |-> FALSE, err |-> why]

\* An interpreter that looks at the kind of change before the entity type:
\* a DELETE at any address is the close-only operation.
parse_transaction_delete_closes(state, block) ==
    LET address_type == get_address_type(state.address)
        v == unpack_data(state.value)
        Decoded(t) == IF v.ok THEN [ok |-> TRUE, transaction |-> t] ELSE ParseErr("decode")
    IN  CASE state.field_type = "DELETE" /\ address_type \notin {"PANIC", "ANOTHER_FAMILY"} ->
                [ok |-> TRUE,
                 transaction |-> [type |-> "UpdateHolding",
                                  address |-> state.address,
                                  current_block_num |-> block.block_num,
                                  max_block_num |-> MAX_BLOCK_NUM]]
          [] address_type = "ORGANIZATION" ->
                Decoded([type |-> "InsertOrganization",
                         org |-> get_new_organization(v.msg, block),
                         authorizations |->
                            get_new_authorization(v.msg.authorizations, block,
                                                  v.msg.organization_id)])
          [] address_type = "PARTICIPANT" ->
                Decoded([type |-> "InsertParticipant",
                         participant |-> get_new_participant(v.msg, block)])
          [] address_type = "SETTLEMENT" ->
                Decoded([type |-> "InsertSettlement",
                         settlement |-> get_new_settlement(v.msg, block)])
          [] address_type = "HOLDING" ->
                IF state.field_type = "DELETE"
                THEN [ok |-> TRUE,
                      transaction |-> [type |-> "UpdateHolding",
                                       address |-> state.address,
                                       current_block_num |-> block.block_num,
                                       max_block_num |-> MAX_BLOCK_NUM]]
                ELSE Decoded([type |-> "InsertHolding",
                              holding |-> get_new_holding(v.msg, block, state.address)])
          [] address_type = "ORDER" ->
                Decoded([type |-> "InsertOrder", order |-> get_new_order(v.msg, block)])
          [] address_type = "BOND" ->
                Decoded([type |-> "InsertBond",
                         bond |-> get_new_bond(v.msg, block),
                         corp_dept_ratings |->
                            get_new_corporate_debt_ratings(
                                v.msg.corporate_debt_ratings, block, v.msg.bond_id)])
          [] address_type = "RECEIPT" ->
                Decoded([type |-> "InsertReceipt", receipt |-> get_new_receipt(v.msg, block)])
          [] address_type = "QUOTE" ->
                Decoded([type |-> "InsertQuote", quote |-> get_new_quote(v.msg, block)])
          [] address_type = "PANIC" -> ParseErr("panic")
          [] OTHER -> ParseErr("no_arm")

parse_transaction(state, block) ==
    LET address_type == get_address_type(state.address)
        v == unpack_data(state.value)
        Decoded(t) == IF v.ok THEN [ok |-> TRUE, transaction |-> t] ELSE ParseErr("decode")
    IN  CASE address_type = "ORGANIZATION" ->
                Decoded([type |-> "InsertOrganization",
                         org |-> get_new_organization(v.msg, block),
                         authorizations |->
                            get_new_authorization(v.msg.authorizations, block,
                                                  v.msg.organization_id)])
          [] address_type = "PARTICIPANT" ->
                Decoded([type |-> "InsertParticipant",
                         participant |-> get_new_participant(v.msg, block)])
          [] address_type = "SETTLEMENT" ->
                Decoded([type |-> "InsertSettlement",
                         settlement |-> get_new_settlement(v.msg, block)])
          [] address_type = "HOLDING" ->
                IF state.field_type = "DELETE"
                THEN [ok |-> TRUE,
                      transaction |-> [type |-> "UpdateHolding",
                                       address |-> state.address,
                                       current_block_num |-> block.block_num,
                                       max_block_num |-> MAX_BLOCK_NUM]]
                ELSE Decoded([type |-> "InsertHolding",
                              holding |-> get_new_holding(v.msg, block, state.address)])
          [] address_type = "ORDER" ->
                Decoded([type |-> "InsertOrder", order |-> get_new_order(v.msg, block)])
          [] address_type = "BOND" ->
                Decoded([type |-> "InsertBond",
                         bond |-> get_new_bond(v.msg, block),
                         corp_dept_ratings |->
                            get_new_corporate_debt_ratings(
                                v.msg.corporate_debt_ratings, block, v.msg.bond_id)])
          [] address_type = "RECEIPT" ->
                Decoded([type |-> "InsertReceipt", receipt |-> get_new_receipt(v.msg, block)])
          [] address_type = "QUOTE" ->
                Decoded([type |-> "InsertQuote", quote |-> get_new_quote(v.msg, block)])
          [] address_type = "PANIC" -> ParseErr("panic")
          [] OTHER -> ParseErr("no_arm")

RECURSIVE skip_unparsed(_, _)
\* A loop that leaves out the state changes that do not parse.
skip_unparsed(state_changes, block) ==
    IF state_changes = <<>> THEN [ok |-> TRUE, transactions |-> <<>>]
    ELSE LET t == parse_transaction(Head(state_changes), block)
             rest == skip_unparsed(Tail(state_changes), block)
         IN  IF ~t.ok THEN rest
             ELSE [ok |-> TRUE,
                   transactions |-> <<t.transaction>> \o rest.transactions]

RECURSIVE parse_transactions(_, _)
\* The loop of parse_events: `transactions.push(self.parse_transaction(..)?)`.
parse_transactions(state_changes, block) ==
    IF state_changes = <<>> THEN [ok |-> TRUE, transactions |-> <<>>]
    ELSE LET t == parse_transaction(Head(state_changes), block)
         IN  IF ~t.ok THEN t
             ELSE LET rest == parse_transactions(Tail(state_changes), block)
                  IN  IF ~rest.ok THEN rest
                      ELSE [ok |-> TRUE,
                            transactions |-> <<t.transaction>> \o rest.transactions]

(***************************************************************************)
(* parse_events on the event list of one block, msg = [block, changes],    *)
(* with the store failing the statements fail_at.  Its value is the        *)
(* outcome of execute_transactions_in_block, or, when a state change did   *)
(* not parse, the store as it was with result "decode_err", "no_arm" or    *)
(* "panic" and path "NONE".                                                *)
(***************************************************************************)
execute_parsed(db, parsed, block, fail_at) ==
    IF ~parsed.ok
    THEN [db     |-> db,
          work   |-> db,
          result |-> IF parsed.err = "decode" THEN "decode_err" ELSE parsed.err,
          path   |-> "NONE",
          steps  |-> 0]
    ELSE execute_transactions_in_block(db, parsed.transactions, block, fail_at)

parse_events(db, msg, fail_at) ==
    execute_parsed(db,
                   parse_transactions(parse_state_delta_events(msg.changes), msg.block),
                   msg.block, fail_at)

(***************************************************************************)
(* The event lists the validator can send.  Each behaviour is about one    *)
(* family of entity types (the variable family, fixed by Init): the state  *)
(* changes of its blocks are drawn from that family's menu.  Tables of     *)
(* different families share no statement of the code except drop_fork.     *)
(* The addresses are those addressing.rs derives, under the prefix the     *)
(* subscription asks for ("000000") or under the bond namespace; the       *)
(* foreign family also has an address of the settings family, which lives  *)
(* under 000000.                                                           *)
(***************************************************************************)
BlockIds == {"a", "b"}

Blocks == [block_num : 1..MaxBlockNum, block_id : BlockIds]

\* The address with its first characters replaced by prefix.
Under(prefix, address) == prefix \o SubSeq(address, Len(prefix) + 1, Len(address))

Value(msg) == [decodes |-> TRUE, msg |-> msg]

Garbage == [decodes |-> FALSE, msg |-> <<>>]

StateChange(address, value, field_type) ==
    [address |-> address, value |-> value, field_type |-> field_type]

OrganizationMsg(id, authorizations) ==
    [organization_id |-> id, authorizations |-> authorizations]

Authorization(public_key, role) == [public_key |-> public_key, role |-> role]

BondMsg(id, agencies) ==
    [bond_id |-> id,
     corporate_debt_ratings |-> [i \in 1..Len(agencies) |-> [agency |-> agencies[i]]]]

HoldingMsg(org, asset) == [organization_id |-> org, asset_id |-> asset]

\* An address of the settings family, whose namespace is 000000: 70
\* characters, none of the bond family's type hashes at 6..12.
SettingsAddress ==
    NamespaceRegexPrefix \o hash("sawtooth.settings.vote.authorized_keys", 64)

Families ==
    {"organization", "participant", "bond", "holding", "order_quote",
     "settlement_receipt", "foreign"}

Menu(f) ==
    CASE f = "organization" ->
            {StateChange(Under(NamespaceRegexPrefix, make_organization_address("T")),
                         Value(OrganizationMsg("T", auths)), "SET")
                : auths \in {<<>>, <<Authorization("pk1", "MARKETMAKER")>>}}
      [] f = "participant" ->
            {StateChange(Under(NamespaceRegexPrefix, make_participant_address(pk)),
                         Value([public_key |-> pk, organization_id |-> "T"]), "SET")
                : pk \in {"pk1", "pk2"}}
            \cup
            {StateChange(Under(NamespaceRegexPrefix, make_participant_address("pk1")), Garbage, "SET")}
      [] f = "bond" ->
            {StateChange(Under(NamespaceRegexPrefix, make_bond_address("b1")),
                         Value(BondMsg("b1", agencies)), "SET")
                : agencies \in {<<>>, <<"Fitch">>}}
      [] f = "holding" ->
            {StateChange(Under(NamespaceRegexPrefix, make_holding_address("T", asset)),
                         Value(HoldingMsg("T", asset)), "SET")
                : asset \in {"b1", "b2"}}
            \cup
            {StateChange(Under(NamespaceRegexPrefix, make_holding_address("T", "b1")), Garbage, "DELETE")}
      [] f = "order_quote" ->
            {StateChange(Under(NamespaceRegexPrefix, make_order_address("T", "b1")),
                         Value([order_id |-> "o1", bond_id |-> "b1",
                                ordering_organization_id |-> "T"]), "SET"),
             StateChange(Under(NamespaceRegexPrefix, make_quote_address("T", "b1")),
                         Value([bond_id |-> "b1", organization_id |-> "T"]), "SET")}
      [] f = "settlement_receipt" ->
            {StateChange(Under(NamespaceRegexPrefix, make_settlement_address("T", "o1")),
                         Value([order_id |-> "o1"]), "SET"),
             StateChange(Under(NamespaceRegexPrefix, make_receipt_address("T", "b1")),
                         Value([organization_id |-> "T", bond_id |-> "b1"]), "DELETE")}
      [] f = "foreign" ->
            {StateChange(make_organization_address("T"),
                         Value(OrganizationMsg("T", <<>>)), "SET"),
             StateChange(make_holding_address("T", "b1"), Garbage, "DELETE"),
             StateChange(SettingsAddress, Garbage, "SET")}

SeqsUpTo(S, n) == UNION {[1..k -> S] : k \in 0..n}

Messages(f) == [block : Blocks, changes : SeqsUpTo(Menu(f), MaxChanges)]

RECURSIVE SumLen(_, _)
SumLen(db, ts) ==
    IF ts = {} THEN 0
    ELSE LET t == CHOOSE x \in ts : TRUE
         IN  Len(db[t]) + SumLen(db, ts \ {t})

RowCount(db) == SumLen(db, VersionedTables)

(***************************************************************************)
(* State: the store, the position of Subscriber::start (pc), the           *)
(* subscriber's is_active field, the Err that start returned (returned,    *)
(* "none" while it has not), and the family of entity types of the ledger. *)
(***************************************************************************)
VARIABLES db, pc, is_active, returned, family

\* The state of a use of addressing.rs on its own: the entity type and the
\* natural key an address is made for, the address, where it came from
\* ("none" before there is one, "made" by a make_*_address function, "given"
\* by a caller) and what get_address_type returned for it ("none" before
\* the call).
VARIABLES entity, key, addr, origin, addr_type

addr_vars == <<entity, key, addr, origin, addr_type>>

\* The loop of Subscriber::start step by step: the messages the validator
\* has sent that wait in the receiver (channel, each with the number of its
\* delivery), how many it has sent (delivered), the message recv returned
\* that is being handled (current, <<>> between two messages), the store
\* transaction that is open (tx, <<>> when none is) and the events of the
\* run so far (log).
VARIABLES channel, delivered, current, tx, log

serial_vars == <<channel, delivered, current, tx, log>>

\* Appliers that call execute_transactions_in_block on the same store, each
\* on a connection of its own: appliers[a] is [pc, msg, lookup, work], the
\* position of applier a in its call, the event list it applies, what its
\* get_block_if_exists answered (<<>> before the call) and the store as its
\* open transaction has written it (<<>> when it has written nothing).
\* <<>> when there are none.
VARIABLES appliers

conc_vars == <<appliers>>

\* A call of parse_transaction on its own: the state change (mutation) and
\* the block it is called with, and the Result it returned (operation,
\* <<>> before the call).
VARIABLES mutation, at_block, operation

parse_vars == <<mutation, at_block, operation>>

\* A ledger without forks: the event lists that have been applied, in the
\* order of their delivery, each for a block number above the one before.
VARIABLES past

replay_vars == <<past>>

ledger_vars == <<db, pc, is_active, returned, family>>

\* What the loop of the subscriber, taken one message per step, leaves alone.
aux_vars == <<addr_vars, serial_vars, conc_vars, parse_vars, replay_vars>>

other_than_addr == <<ledger_vars, serial_vars, conc_vars, parse_vars, replay_vars>>

other_than_serial == <<addr_vars, conc_vars, parse_vars, replay_vars>>

other_than_conc == <<pc, is_active, returned, family, addr_vars, serial_vars, parse_vars, replay_vars>>

other_than_parse == <<ledger_vars, addr_vars, serial_vars, conc_vars, replay_vars>>

other_than_replay ==
    <<pc, is_active, returned, family, addr_vars, serial_vars, conc_vars, parse_vars>>

ReplayIdle == past = <<>>

ParseIdle ==
    /\ mutation = <<>>
    /\ at_block = <<>>
    /\ operation = <<>>

ConcIdle == appliers = <<>>

vars == <<ledger_vars, aux_vars>>

\* No message is in flight.
SerialIdle ==
    /\ channel = <<>>
    /\ delivered = 0
    /\ current = <<>>
    /\ tx = <<>>
    /\ log = <<>>

\* No address is being made or classified.
AddrIdle ==
    /\ entity = "none"
    /\ key = <<>>
    /\ addr = <<>>
    /\ origin = "none"
    /\ addr_type = "none"

Init ==
    /\ db = EmptyDb
    /\ pc = "new"
    /\ is_active = FALSE
    /\ returned = "none"
    /\ family \in Families
    /\ AddrIdle
    /\ SerialIdle
    /\ ConcIdle
    /\ ParseIdle
    /\ ReplayIdle

\* Subscriber::start up to the loop (main calls it once per process run; the
\* store outlives the process).
Start ==
    /\ pc # "loop"
    /\ pc' = "loop"
    /\ is_active' = TRUE
    /\ returned' = "none"
    /\ UNCHANGED <<db, family, aux_vars>>

\* One iteration of the loop: recv, then parse_events; `?` leaves start on Err.
Receive(msg, fail_at) ==
    /\ pc = "loop"
    /\ is_active
    /\ \E r \in {parse_events(db, msg, fail_at)} :
           /\ RowCount(r.db) <= MaxRows
           /\ db' = r.db
           /\ pc' = IF r.result = "ok" THEN "loop" ELSE "returned"
           /\ returned' = IF r.result = "ok" THEN "none" ELSE r.result
    /\ UNCHANGED <<is_active, family, aux_vars>>

\* receiver.recv() returns Err: start returns it.
RecvFails ==
    /\ pc = "loop"
    /\ is_active
    /\ pc' = "returned"
    /\ returned' = "recv_err"
    /\ UNCHANGED <<db, is_active, family, aux_vars>>

\* The statements of the call of parse_events(msg) that the store can fail.
Statements(d, msg) == 0..(parse_events(d, msg, NoFailure).steps - 1)

\* Where Next lets the store fail: at the first statement of a call (the
\* block lookup) and at its last one (the block insert, after everything
\* else has run).  Every failure leaves the same store behind, and the
\* claims about failures range over all of Statements.
FailPoints(msg) ==
    LET n == parse_events(db, msg, NoFailure).steps
    IN  IF n = 0 THEN {NoFailure} ELSE {NoFailure, {0}, {n - 1}}

Next ==
    \/ Start
    \/ \E msg \in Messages(family) : \E fail_at \in FailPoints(msg) : Receive(msg, fail_at)
    \/ RecvFails

Spec == Init /\ [][Next]_vars

(***************************************************************************)
(* addressing.rs on its own: an address is made for an entity type and a   *)
(* natural key, or given by a caller, and then classified.                 *)
(***************************************************************************)
\* The variants of AddressSpace that name an entity type.
EntityTypes ==
    {"ORGANIZATION", "PARTICIPANT", "SETTLEMENT", "HOLDING", "RECEIPT",
     "ORDER", "QUOTE", "BOND"}

\* The types whose address is made from one id (one hash of 58 characters).
SingleKeyTypes == {"ORGANIZATION", "PARTICIPANT", "BOND"}

\* The ids natural keys are made of; one of them is the name of an entity
\* type, whose digest starts with that type's hash.
Ids == {"T", ORGANIZATION}

NaturalKeys(type) ==
    IF type \in SingleKeyTypes
    THEN {<<id>> : id \in Ids}
    ELSE {<<id1, id2>> : id1 \in Ids, id2 \in Ids}

\* The name constant hashed into the addresses of a type.
TypeName(type) ==
    CASE type = "ORGANIZATION" -> ORGANIZATION
      [] type = "PARTICIPANT" -> PARTICIPANT
      [] type = "SETTLEMENT" -> SETTLEMENT
      [] type = "HOLDING" -> HOLDING
      [] type = "RECEIPT" -> RECEIPT
      [] type = "ORDER" -> ORDER
      [] type = "QUOTE" -> QUOTE
      [] type = "BOND" -> BOND

\* The make_*_address function of a type, applied to a natural key.
MakeAddress(type, k) ==
    CASE type = "ORGANIZATION" -> make_organization_address(k[1])
      [] type = "PARTICIPANT" -> make_participant_address(k[1])
      [] type = "BOND" -> make_bond_address(k[1])
      [] type = "HOLDING" -> make_holding_address(k[1], k[2])
      [] type = "SETTLEMENT" -> make_settlement_address(k[1], k[2])
      [] type = "RECEIPT" -> make_receipt_address(k[1], k[2])
      [] type = "QUOTE" -> make_quote_address(k[1], k[2])
      [] type = "ORDER" -> make_order_address(k[1], k[2])

\* Lengths of addresses too short, or just long enough, for the slice
\* [PREFIX_SIZE..PREFIX_SIZE*2].
ShortLens == {0, PREFIX_SIZE, PREFIX_SIZE * 2 - 1, PREFIX_SIZE * 2}

\* Strings a caller can pass to get_address_type besides a made address a:
\* a cut short, a under the namespace of another family, an address of the
\* settings family, and an address of the bond namespace with no known
\* type hash.
GivenAddresses(a) ==
    IF Len(a) < PREFIX_SIZE * 2 THEN {}
    ELSE {SubSeq(a, 1, n) : n \in ShortLens}
            \cup {Under(NamespaceRegexPrefix, a), SettingsAddress,
                  Under(get_bond_namespace, SettingsAddress)}

AddrInit ==
    /\ db = EmptyDb
    /\ pc = "new"
    /\ is_active = FALSE
    /\ returned = "none"
    /\ family = "foreign"
    /\ entity \in EntityTypes
    /\ key \in NaturalKeys(entity)
    /\ addr = <<>>
    /\ origin = "none"
    /\ addr_type = "none"
    /\ SerialIdle
    /\ ConcIdle
    /\ ParseIdle
    /\ ReplayIdle

\* A call of the make_*_address function of the entity type.
Make ==
    /\ origin = "none"
    /\ addr' = MakeAddress(entity, key)
    /\ origin' = "made"
    /\ UNCHANGED <<entity, key, addr_type, other_than_addr>>

\* A caller comes with an address of its own.
Given(a) ==
    /\ origin = "made"
    /\ addr_type = "none"
    /\ addr' = a
    /\ origin' = "given"
    /\ UNCHANGED <<entity, key, addr_type, other_than_addr>>

\* A call of get_address_type.
Classify ==
    /\ origin # "none"
    /\ addr_type = "none"
    /\ addr_type' = get_address_type(addr)
    /\ UNCHANGED <<entity, key, addr, origin, other_than_addr>>

AddrNext ==
    \/ Make
    \/ \E a \in GivenAddresses(addr) : Given(a)
    \/ Classify

AddrSpec == AddrInit /\ [][AddrNext]_vars

(***************************************************************************)
(* Subscriber::start one statement at a time.  The validator sends event   *)
(* lists at any moment; the receiver keeps them in arrival order until     *)
(* recv takes the first.  parse_events then parses the message, opens the  *)
(* store transaction, and returns when it has committed or rolled back.    *)
(* pc is "received" after recv and "in_transaction" while the transaction  *)
(* is open.                                                                *)
(***************************************************************************)
MaxDelivered == 3

\* The event lists of a family with at most one state change.
SerialMessages(f) == [block : Blocks, changes : SeqsUpTo(Menu(f), 1)]

Event(ev, seq) == [ev |-> ev, seq |-> seq]

SerialInit ==
    /\ db = EmptyDb
    /\ pc = "new"
    /\ is_active = FALSE
    /\ returned = "none"
    /\ family = "participant"
    /\ AddrIdle
    /\ SerialIdle
    /\ ConcIdle
    /\ ParseIdle
    /\ ReplayIdle

\* start up to the loop.
SerialStart ==
    /\ pc = "new"
    /\ pc' = "loop"
    /\ is_active' = TRUE
    /\ UNCHANGED <<db, returned, family, aux_vars>>

\* The validator sends an event list; it waits in the receiver.
Deliver(msg) ==
    /\ delivered < MaxDelivered
    /\ delivered' = delivered + 1
    /\ channel' = Append(channel, [seq |-> delivered + 1, msg |-> msg])
    /\ UNCHANGED <<ledger_vars, other_than_serial, current, tx, log>>

\* A receive that does not wait for the handling of the message before.
RecvAnytime ==
    /\ pc \in {"loop", "received", "in_transaction"}
    /\ is_active
    /\ channel # <<>>
    /\ current' = <<Head(channel)>>
    /\ channel' = Tail(channel)
    /\ log' = Append(log, Event("recv", Head(channel).seq))
    /\ pc' = "received"
    /\ UNCHANGED <<db, is_active, returned, family, other_than_serial, delivered, tx>>

\* self.receiver.recv() at the top of the loop returns the oldest message.
Recv ==
    /\ pc = "loop"
    /\ is_active
    /\ channel # <<>>
    /\ current' = <<Head(channel)>>
    /\ channel' = Tail(channel)
    /\ log' = Append(log, Event("recv", Head(channel).seq))
    /\ pc' = "received"
    /\ UNCHANGED <<db, is_active, returned, family, other_than_serial, delivered, tx>>

\* recv returns Err: start returns it.
SerialRecvFails ==
    /\ pc = "loop"
    /\ is_active
    /\ pc' = "returned"
    /\ returned' = "recv_err"
    /\ UNCHANGED <<db, is_active, family, aux_vars>>

\* parse_events up to the call of conn.transaction: a state change that
\* does not parse makes start return; otherwise the transaction opens and
\* its statements run (the store failing those of fail_at).
Parse(fail_at) ==
    /\ pc = "received"
    /\ \E r \in {parse_events(db, current[1].msg, fail_at)} :
           /\ RowCount(r.db) <= MaxRows
           /\ IF r.path = "NONE"
              THEN /\ pc' = "returned"
                   /\ returned' = r.result
                   /\ current' = <<>>
                   /\ log' = Append(log, Event("rejected", current[1].seq))
                   /\ UNCHANGED tx
              ELSE /\ pc' = "in_transaction"
                   /\ tx' = <<r>>
                   /\ log' = Append(log, Event("begin", current[1].seq))
                   /\ UNCHANGED <<returned, current>>
    /\ UNCHANGED <<db, is_active, family, other_than_serial, channel, delivered>>

\* A loop that logs the Err of parse_events and goes on with the next
\* message.
FinishAndGoOn ==
    /\ pc = "in_transaction"
    /\ db' = tx[1].db
    /\ tx' = <<>>
    /\ current' = <<>>
    /\ log' = Append(log, Event(IF tx[1].result = "ok" THEN "commit" ELSE "abort",
                                current[1].seq))
    /\ pc' = "loop"
    /\ returned' = "none"
    /\ UNCHANGED <<is_active, family, other_than_serial, channel, delivered>>

\* conn.transaction returns: the statements are committed, or rolled back
\* when one failed; on Err start returns, on Ok the loop goes on.
Finish ==
    /\ pc = "in_transaction"
    /\ db' = tx[1].db
    /\ tx' = <<>>
    /\ current' = <<>>
    /\ log' = Append(log, Event(IF tx[1].result = "ok" THEN "commit" ELSE "abort",
                                current[1].seq))
    /\ pc' = IF tx[1].result = "ok" THEN "loop" ELSE "returned"
    /\ returned' = IF tx[1].result = "ok" THEN "none" ELSE tx[1].result
    /\ UNCHANGED <<is_active, family, other_than_serial, channel, delivered>>

SerialNext ==
    \/ SerialStart
    \/ \E msg \in SerialMessages(family) : Deliver(msg)
    \/ Recv
    \/ SerialRecvFails
    \/ \E fail_at \in (IF current = <<>> THEN {} ELSE FailPoints(current[1].msg)) : Parse(fail_at)
    \/ Finish

SerialSpec == SerialInit /\ [][SerialNext]_vars

(***************************************************************************)
(* Two appliers on one store.  Each runs execute_transactions_in_block on  *)
(* its own connection: conn.transaction opens a transaction of the store's *)
(* default isolation (READ COMMITTED: a statement reads what is committed  *)
(* when it runs, and the transaction's own writes), the lookup runs, then  *)
(* the writing statements, then the commit.  The schema of the store       *)
(* (tables/load_bond_db.sql) declares block_num the primary key of blocks: *)
(* an insert of a block number that an open transaction has inserted waits *)
(* for that transaction to end, and an insert of a committed block number  *)
(* is an Err.  The block insert is the last statement of the closure, so   *)
(* the writing statements of an applier are taken as one step at the       *)
(* moment of its block insert.                                             *)
(***************************************************************************)
Appliers == 1..2

\* The block number the appliers bring, not recorded in ConcBase.
ConcBlockNum == MaxBlockNum

\* The store before the appliers start: block 1 with participant pk1.
ConcBase ==
    parse_events(EmptyDb,
                 [block |-> [block_num |-> 1, block_id |-> "a"],
                  changes |-> <<StateChange(
                      Under(NamespaceRegexPrefix, make_participant_address("pk1")),
                      Value([public_key |-> "pk1", organization_id |-> "T"]),
                      "SET")>>],
                 NoFailure).db

\* The event lists the appliers bring: every one for block number
\* ConcBlockNum, with either block id, and state changes that parse.
ConcMessages ==
    {m \in [block : {b \in Blocks : b.block_num = ConcBlockNum},
            changes : SeqsUpTo(Menu("participant"), 1)] :
        parse_transactions(parse_state_delta_events(m.changes), m.block).ok}

\* The primary key of blocks: no two rows with one block_num.
PrimaryKeyHolds(d) ==
    \A i, j \in 1..Len(d.blocks) :
        d.blocks[i].block_num = d.blocks[j].block_num => i = j

ConcInit ==
    /\ db = ConcBase
    /\ pc = "new"
    /\ is_active = FALSE
    /\ returned = "none"
    /\ family = "participant"
    /\ AddrIdle
    /\ SerialIdle
    /\ ParseIdle
    /\ ReplayIdle
    /\ appliers \in [Appliers ->
            [pc : {"begun"}, msg : ConcMessages, lookup : {<<>>}, work : {<<>>}]]

\* let block_in_db = self.get_block_if_exists(block.block_num)?, on what
\* is committed at that moment; a duplicate returns Ok(()) at once.
Lookup(a) ==
    /\ appliers[a].pc = "begun"
    /\ \E l \in {get_block_if_exists(Connect(db, NoFailure),
                                      appliers[a].msg.block.block_num)} :
        appliers' = [appliers EXCEPT
            ![a].lookup = <<l>>,
            ![a].pc = IF path_taken(l, appliers[a].msg.block) = "DUPLICATE"
                      THEN "skipped" ELSE "looked_up"]
    /\ UNCHANGED <<db, other_than_conc>>

\* The rest of the closure, on what is committed when its block insert
\* runs and with the answer the lookup gave before.  It waits while the
\* other applier has an uncommitted block insert; a failed statement and a
\* block number the store already holds are an Err, and the transaction
\* is rolled back.
Write(a, fail_at) ==
    /\ appliers[a].pc = "looked_up"
    /\ \A b \in Appliers : appliers[b].pc # "written"
    /\ \E final \in {closure(
                [appliers[a].lookup[1] EXCEPT
                    !.st = [Connect(db, fail_at) EXCEPT !.steps = 1]],
                parse_transactions(parse_state_delta_events(appliers[a].msg.changes),
                                   appliers[a].msg.block).transactions,
                appliers[a].msg.block)} :
        IF final.ok /\ PrimaryKeyHolds(final.db)
        THEN appliers' = [appliers EXCEPT ![a].pc = "written", ![a].work = <<final.db>>]
        ELSE appliers' = [appliers EXCEPT ![a].pc = "failed"]
    /\ UNCHANGED <<db, other_than_conc>>

\* conn.transaction commits on Ok.
Commit(a) ==
    /\ appliers[a].pc = "written"
    /\ db' = appliers[a].work[1]
    /\ appliers' = [appliers EXCEPT ![a].pc = "committed", ![a].work = <<>>]
    /\ UNCHANGED other_than_conc

ConcNext ==
    \/ \E a \in Appliers : Lookup(a)
    \/ \E a \in Appliers : \E fail_at \in {NoFailure, {1}} : Write(a, fail_at)
    \/ \E a \in Appliers : Commit(a)

ConcSpec == ConcInit /\ [][ConcNext]_vars

(***************************************************************************)
(* parse_transaction on its own: called once on a state change of any of   *)
(* the eight entity types, with value bytes that decode to a message of    *)
(* the type (with up to MaxSub sub-records) or do not decode, of any kind  *)
(* of change, for any block.                                               *)
(***************************************************************************)
MaxSub == 2

\* StateChange_Type
Kinds == {"TYPE_UNSET", "SET", "DELETE"}

\* The messages of an entity type that value bytes decode to.
Payloads(type) ==
    CASE type = "ORGANIZATION" ->
            {OrganizationMsg("T", auths) :
                auths \in SeqsUpTo({Authorization("pk1", "MARKETMAKER"),
                                    Authorization("pk2", "TRADER")}, MaxSub)}
      [] type = "PARTICIPANT" -> {[public_key |-> "pk1", organization_id |-> "T"]}
      [] type = "BOND" ->
            {BondMsg("b1", agencies) : agencies \in SeqsUpTo({"Fitch", "Moodys"}, MaxSub)}
      [] type = "HOLDING" -> {HoldingMsg("T", "b1")}
      [] type = "SETTLEMENT" -> {[order_id |-> "o1"]}
      [] type = "RECEIPT" -> {[organization_id |-> "T", bond_id |-> "b1"]}
      [] type = "ORDER" ->
            {[order_id |-> "o1", bond_id |-> "b1", ordering_organization_id |-> "T"]}
      [] type = "QUOTE" -> {[bond_id |-> "b1", organization_id |-> "T"]}

\* The state changes parse_transaction is called with.
Mutations ==
    UNION {
        {StateChange(Under(NamespaceRegexPrefix, MakeAddress(type, k)), value, kind) :
            k \in NaturalKeys(type),
            value \in {Value(m) : m \in Payloads(type)} \cup {Garbage},
            kind \in Kinds}
        : type \in EntityTypes}

ParseInit ==
    /\ db = EmptyDb
    /\ pc = "new"
    /\ is_active = FALSE
    /\ returned = "none"
    /\ family = "foreign"
    /\ AddrIdle
    /\ SerialIdle
    /\ ConcIdle
    /\ ReplayIdle
    /\ mutation \in Mutations
    /\ at_block \in Blocks
    /\ operation = <<>>

\* self.parse_transaction(transaction, &block)
Interpret ==
    /\ operation = <<>>
    /\ operation' = <<parse_transaction(mutation, at_block)>>
    /\ UNCHANGED <<mutation, at_block, other_than_parse>>

ParseNext == Interpret

ParseSpec == ParseInit /\ [][ParseNext]_vars

(***************************************************************************)
(* A ledger that never forks: the validator delivers each block once, in   *)
(* strictly increasing order of block_num (gaps allowed), and every event  *)
(* list is applied.  past keeps the event lists applied so far.            *)
(***************************************************************************)
ReplayInit ==
    /\ db = EmptyDb
    /\ pc = "loop"
    /\ is_active = TRUE
    /\ returned = "none"
    /\ family \in Families
    /\ AddrIdle
    /\ SerialIdle
    /\ ConcIdle
    /\ ParseIdle
    /\ past = <<>>

\* One turn of the loop of Subscriber::start that returns Ok, for a block
\* above every block delivered before.
Admit(msg) ==
    /\ past # <<>> => msg.block.block_num > past[Len(past)].block.block_num
    /\ \E r \in {parse_events(db, msg, NoFailure)} :
        /\ r.result = "ok"
        /\ db' = r.db
    /\ past' = Append(past, msg)
    /\ UNCHANGED other_than_replay

ReplayNext == \E msg \in Messages(family) : Admit(msg)

ReplaySpec == ReplayInit /\ [][ReplayNext]_vars

(***************************************************************************)
(* Vocabulary of the properties.                                           *)
(***************************************************************************)
\* The natural key of a row of table t.
NaturalKey(t, r) ==
    CASE t = "organizations" -> <<r.organization_id>>
      [] t = "participants" -> <<r.public_key>>
      [] t = "authorizations" -> <<r.organization_id, r.participant_public_key>>
      [] t = "bonds" -> <<r.bond_id>>
      [] t = "corporate_debt_ratings" -> <<r.bond_id, r.agency>>
      [] t = "holdings" -> <<r.owner_organization_id, r.asset_id>>
      [] t = "orders" -> <<r.order_id>>
      [] t = "quotes" -> <<r.organization_id, r.bond_id>>
      [] t = "settlements" -> <<r.order_id>>
      [] t = "receipts" -> <<r.payee_organization_id, r.bond_id>>

IsOpen(r) == r.end_block_num = MAX_BLOCK_NUM

Max(a, b) == IF a >= b THEN a ELSE b

Min(a, b) == IF a <= b THEN a ELSE b

\* [start, end) of the two rows share a block number
Overlap(r1, r2) ==
    Max(r1.start_block_num, r2.start_block_num) < Min(r1.end_block_num, r2.end_block_num)

\* The operations parse_events hands to execute_transactions_in_block.
TransactionsOf(msg) ==
    parse_transactions(parse_state_delta_events(msg.changes), msg.block)

\* C1 (as claimed): in every versioned table, two rows of one natural key
\* are never both open and never have overlapping [start, end) ranges.
C1_NonOverlap ==
    \A t \in VersionedTables :
        \A i, j \in 1..Len(db[t]) :
            (i < j /\ NaturalKey(t, db[t][i]) = NaturalKey(t, db[t][j]))
                => /\ ~(IsOpen(db[t][i]) /\ IsOpen(db[t][j]))
                   /\ ~Overlap(db[t][i], db[t][j])

\* C7: the block table holds at most one row per block_num.
C7_BlockUniqueness ==
    \A i, j \in 1..Len(db["blocks"]) :
        i # j => db["blocks"][i].block_num # db["blocks"][j].block_num

\* C7 witness: two blocks are recorded, and a fork at the lower block number
\* can be delivered that replaces both by one block row.
C7_Witness ==
    /\ pc = "loop"
    /\ Len(db["blocks"]) = 2
    /\ \E msg \in Messages(family) :
        LET r == parse_events(db, msg, NoFailure)
        IN  r.path = "FORK" /\ r.result = "ok" /\ Len(r.db["blocks"]) = 1

\* C8 (as claimed): every row of every versioned table has
\* start_block_num < end_block_num.
C8_ValidityWindow ==
    \A t \in VersionedTables :
        \A i \in 1..Len(db[t]) :
            db[t][i].start_block_num < db[t][i].end_block_num

Range(seq) == {seq[i] : i \in 1..Len(seq)}

\* The rows operation op carries for table t.
InsertedRows(op, t) ==
    CASE op.type = "InsertOrganization" /\ t = "organizations" -> {op.org}
      [] op.type = "InsertOrganization" /\ t = "authorizations" -> Range(op.authorizations)
      [] op.type = "InsertParticipant" /\ t = "participants" -> {op.participant}
      [] op.type = "InsertBond" /\ t = "bonds" -> {op.bond}
      [] op.type = "InsertBond" /\ t = "corporate_debt_ratings" -> Range(op.corp_dept_ratings)
      [] op.type = "InsertHolding" /\ t = "holdings" -> {op.holding}
      [] op.type = "InsertOrder" /\ t = "orders" -> {op.order}
      [] op.type = "InsertQuote" /\ t = "quotes" -> {op.quote}
      [] op.type = "InsertSettlement" /\ t = "settlements" -> {op.settlement}
      [] op.type = "InsertReceipt" /\ t = "receipts" -> {op.receipt}
      [] OTHER -> {}

\* Operation op closes the open row r of table t: it inserts a row of r's
\* natural key into a table whose insert closes first, or it is the
\* close-only operation on r's address.
Closes(op, t, r) ==
    \/ /\ t \in {"organizations", "participants", "authorizations"}
       /\ \E new \in InsertedRows(op, t) : NaturalKey(t, new) = NaturalKey(t, r)
    \/ /\ t = "holdings"
       /\ op.type = "UpdateHolding"
       /\ op.address = r.address

\* What a rollback to block number n is to leave of store d: the blocks
\* below n, and of every versioned table the rows that start below n, those
\* that ended at n or later open again.
RolledBack(d, n) ==
    [t \in Tables |->
        IF t = "blocks"
        THEN SelectSeq(d[t], LAMBDA b : b.block_num < n)
        ELSE LET kept == SelectSeq(d[t], LAMBDA r : r.start_block_num < n)
             IN  [i \in 1..Len(kept) |->
                    IF kept[i].end_block_num >= n
                    THEN [kept[i] EXCEPT !.end_block_num = MAX_BLOCK_NUM]
                    ELSE kept[i]]]

\* The store r.db after a successful fork at block msg.block, against the
\* store d before it.
ForkResult(d, msg, r) ==
    LET n == msg.block.block_num
        base == RolledBack(d, n)
        ops == Range(TransactionsOf(msg).transactions)
    IN  /\ r.db["blocks"] = Append(base["blocks"], msg.block)
        /\ \A t \in VersionedTables :
            /\ Len(r.db[t]) >= Len(base[t])
            /\ \A i \in 1..Len(base[t]) :
                \/ r.db[t][i] = base[t][i]
                \/ /\ IsOpen(base[t][i])
                   /\ r.db[t][i] = [base[t][i] EXCEPT !.end_block_num = n]
                   /\ \E op \in ops : Closes(op, t, base[t][i])
            /\ \A i \in (Len(base[t]) + 1)..Len(r.db[t]) :
                /\ r.db[t][i].start_block_num = n
                /\ \E op \in ops :
                    [r.db[t][i] EXCEPT !.end_block_num = MAX_BLOCK_NUM] \in InsertedRows(op, t)
        /\ r.db = parse_events(base, msg, NoFailure).db
        /\ parse_events(base, msg, NoFailure).path = "NEW"

\* C2: a successful call for a block whose block_num is recorded under
\* another block_id leaves no older row that starts at that number or later,
\* has every surviving row that ended at that number or later open again
\* unless an operation of the new block closed it, has the new block's
\* operations applied as on a new block, and leaves the block table with
\* the blocks below that number plus the new block.
C2_ForkEndToEnd ==
    \A msg \in Messages(family) :
        LET r == parse_events(db, msg, NoFailure)
        IN  (r.path = "FORK" /\ r.result = "ok") => ForkResult(db, msg, r)

\* C2 witness: a fork can arrive at a block number at which a recorded
\* row starts and an older row was closed; after it the former is gone and
\* the latter is open.
C2_Witness ==
    /\ pc = "loop"
    /\ \E msg \in Messages(family) : \E t \in VersionedTables :
        LET r == parse_events(db, msg, NoFailure)
            n == msg.block.block_num
        IN  /\ r.path = "FORK" /\ r.result = "ok"
            /\ Len(db[t]) = 2
            /\ db[t][1].start_block_num < n /\ db[t][1].end_block_num = n
            /\ db[t][2].start_block_num = n
            /\ r.db[t] = <<[db[t][1] EXCEPT !.end_block_num = MAX_BLOCK_NUM]>>

\* The block of msg is recorded: a row of the block table has its block_num
\* and its block_id.
Recorded(d, block) ==
    \E i \in 1..Len(d["blocks"]) : d["blocks"][i] = block

\* C3: delivering the same block with the same operations twice leaves the
\* store as delivering it once does, from every reachable store.
C3_IdempotentRedelivery ==
    \A msg \in Messages(family) :
        TransactionsOf(msg).ok =>
            LET ops == TransactionsOf(msg).transactions
                once == execute_transactions_in_block(db, ops, msg.block, NoFailure)
                twice == execute_transactions_in_block(once.db, ops, msg.block, NoFailure)
            IN  once.result = "ok" /\ twice.result = "ok" /\ twice.db = once.db

\* C3 witness: the store holds rows of a block that was applied as new, and
\* delivering that block again with the operations that wrote them finds it
\* a duplicate.
C3_Witness ==
    /\ pc = "loop"
    /\ RowCount(db) > 0
    /\ \E msg \in Messages(family) :
        /\ TransactionsOf(msg).ok
        /\ TransactionsOf(msg).transactions # <<>>
        /\ execute_transactions_in_block(EmptyDb, TransactionsOf(msg).transactions,
                                         msg.block, NoFailure).db = db
        /\ execute_transactions_in_block(db, TransactionsOf(msg).transactions,
                                         msg.block, NoFailure).path = "DUPLICATE"

\* C4: a call for a block that is recorded with the same block_id changes
\* no row of any table, whatever operations it is given.
C4_DuplicateNoOp ==
    \A msg \in Messages(family) :
        (TransactionsOf(msg).ok /\ Recorded(db, msg.block)) =>
            LET r == execute_transactions_in_block(
                         db, TransactionsOf(msg).transactions, msg.block, NoFailure)
            IN  r.result = "ok" /\ r.path = "DUPLICATE" /\ r.db = db

\* C4 witness: a block is recorded that wrote no row, and it can be
\* delivered again with operations that would write rows.
C4_Witness ==
    /\ pc = "loop"
    /\ Len(db["blocks"]) = 1
    /\ RowCount(db) = 0
    /\ \E msg \in Messages(family) :
        /\ Recorded(db, msg.block)
        /\ TransactionsOf(msg).ok
        /\ RowCount(execute_transactions_in_block(
                EmptyDb, TransactionsOf(msg).transactions, msg.block, NoFailure).db) > 0
        /\ parse_events(db, msg, NoFailure).path = "DUPLICATE"

\* C5: whichever statement of a call the store fails (the block lookup, a
\* statement of the fork rollback, of an operation, or the block insert),
\* the call returns an error and every table is as it was before the call.
C5_StoreFailureAtomic ==
    \A msg \in Messages(family) :
        \A f \in Statements(db, msg) :
            LET r == parse_events(db, msg, {f})
            IN  r.result = "store_err" /\ r.db = db

\* C5 witness: start has returned a store error, and a call can fail after
\* its fork rollback has removed rows and a block row from the working
\* copy, which the store then still holds.
C5_Witness ==
    /\ pc = "returned"
    /\ returned = "store_err"
    /\ \E msg \in Messages(family) :
        \E f \in Statements(db, msg) :
            LET r == parse_events(db, msg, {f})
            IN  /\ r.path = "FORK"
                /\ r.result = "store_err"
                /\ f >= 4
                /\ RowCount(r.work) < RowCount(db)
                /\ ~Recorded(r.work, db["blocks"][Len(db["blocks"])])
                /\ r.db = db

\* The state changes of msg that parse_events passes on and has to decode.
NeedsDecode(c) ==
    /\ get_namespace_regex_is_match(c.address)
    /\ get_address_type(c.address) # "ANOTHER_FAMILY"
    /\ ~(get_address_type(c.address) = "HOLDING" /\ c.field_type = "DELETE")

\* C6: when the value of a state change of a batch does not decode,
\* parse_events returns the error without a statement on the store, and the
\* store holds none of the batch's operations and no row for its block.
C6_DecodeFailureAtomic ==
    \A msg \in Messages(family) :
        (\E i \in 1..Len(msg.changes) :
            NeedsDecode(msg.changes[i]) /\ ~msg.changes[i].value.decodes) =>
            LET r == parse_events(db, msg, NoFailure)
            IN  /\ r.result = "decode_err"
                /\ r.path = "NONE"
                /\ r.steps = 0
                /\ r.db = db

\* C6 witness: start has returned a decode error and the store holds no
\* block; the batch's second state change does not decode, and its first
\* one alone would have written a row and the block.
C6_Witness ==
    /\ pc = "returned"
    /\ returned = "decode_err"
    /\ db = EmptyDb
    /\ \E msg \in Messages(family) :
        /\ Len(msg.changes) = 2
        /\ msg.changes[1].value.decodes
        /\ NeedsDecode(msg.changes[2]) /\ ~msg.changes[2].value.decodes
        /\ parse_events(db, msg, NoFailure).result = "decode_err"
        /\ LET alone == parse_events(db, [msg EXCEPT !.changes = <<msg.changes[1]>>],
                                     NoFailure)
           IN  RowCount(alone.db) = 1 /\ Recorded(alone.db, msg.block)

\* C9 (as claimed): an insert operation of any kind, applied alone in a new
\* block N, sets end_block_num = N on the open row of the same natural
\* key, if there is one, and inserts its row as [N, MAX_BLOCK_NUM).
C9_CloseBeforeInsert ==
    \A msg \in Messages(family) :
        LET p == TransactionsOf(msg)
            r == parse_events(db, msg, NoFailure)
            n == msg.block.block_num
        IN  (p.ok /\ Len(p.transactions) = 1 /\ r.path = "NEW" /\ r.result = "ok") =>
                \A t \in VersionedTables :
                    \A new \in InsertedRows(p.transactions[1], t) :
                        /\ \A i \in 1..Len(db[t]) :
                            (IsOpen(db[t][i]) /\ NaturalKey(t, db[t][i]) = NaturalKey(t, new))
                                => r.db[t][i] = [db[t][i] EXCEPT !.end_block_num = n]
                        /\ \E j \in (Len(db[t]) + 1)..Len(r.db[t]) :
                            /\ r.db[t][j] = new
                            /\ new.start_block_num = n
                            /\ IsOpen(new)

\* The state changes of msg are deletions of holdings, at least one.
HoldingDeletions(msg) ==
    /\ msg.changes # <<>>
    /\ \A i \in 1..Len(msg.changes) :
        /\ get_namespace_regex_is_match(msg.changes[i].address)
        /\ get_address_type(msg.changes[i].address) = "HOLDING"
        /\ msg.changes[i].field_type = "DELETE"

\* C10: a new block N whose state changes delete holdings becomes
\* UpdateHolding operations, which set end_block_num = N on the open
\* holding rows of the deleted addresses and change nothing else: no row is
\* inserted, start_block_num stays, rows of other addresses and closed rows
\* stay as they are.
C10_HoldingDeletion ==
    \A msg \in Messages(family) :
        LET p == TransactionsOf(msg)
            r == parse_events(db, msg, NoFailure)
            n == msg.block.block_num
            deleted == {msg.changes[i].address : i \in 1..Len(msg.changes)}
        IN  (HoldingDeletions(msg) /\ r.path = "NEW") =>
                /\ r.result = "ok"
                /\ \A i \in 1..Len(p.transactions) :
                    p.transactions[i] =
                        [type |-> "UpdateHolding", address |-> msg.changes[i].address,
                         current_block_num |-> n, max_block_num |-> MAX_BLOCK_NUM]
                /\ Len(r.db["holdings"]) = Len(db["holdings"])
                /\ \A i \in 1..Len(db["holdings"]) :
                    r.db["holdings"][i] =
                        IF db["holdings"][i].address \in deleted /\ IsOpen(db["holdings"][i])
                        THEN [db["holdings"][i] EXCEPT !.end_block_num = n]
                        ELSE db["holdings"][i]
                /\ \A t \in VersionedTables \ {"holdings"} : r.db[t] = db[t]

\* C10 witness: the open holding of one address is closed by the deletion
\* while the open holding of another address stays open.
C10_Witness ==
    /\ pc = "loop"
    /\ \E msg \in Messages(family) :
        \E i, j \in 1..Len(db["holdings"]) :
            LET r == parse_events(db, msg, NoFailure)
            IN  /\ HoldingDeletions(msg)
                /\ r.path = "NEW" /\ r.result = "ok"
                /\ db["holdings"][i].address = msg.changes[1].address
                /\ IsOpen(db["holdings"][i])
                /\ r.db["holdings"][i].end_block_num = msg.block.block_num
                /\ db["holdings"][j].address # msg.changes[1].address
                /\ IsOpen(db["holdings"][j])
                /\ IsOpen(r.db["holdings"][j])

\* The tables whose insert closes the open row of the key first.
SupersedingTables == {"organizations", "participants", "authorizations"}

\* The natural keys of the rows that the operations ops carry for table t.
InsertedKeys(ops, t) ==
    {NaturalKey(t, new) : new \in UNION {InsertedRows(op, t) : op \in ops}}

\* C11: in the organization, participant and authorization tables, a new
\* block N that inserts versions of some keys closes the open row of each
\* of those keys to end_block_num = N and leaves every other row as it
\* was; afterwards each of those keys has exactly one open row, a new one
\* starting at N where the closed one ends.
C11_Supersede ==
    \A msg \in Messages(family) :
        LET p == TransactionsOf(msg)
            r == parse_events(db, msg, NoFailure)
            n == msg.block.block_num
        IN  (p.ok /\ r.path = "NEW" /\ r.result = "ok") =>
                \A t \in SupersedingTables :
                    LET keys == InsertedKeys(Range(p.transactions), t)
                    IN  /\ \A i \in 1..Len(db[t]) :
                            r.db[t][i] =
                                IF IsOpen(db[t][i]) /\ NaturalKey(t, db[t][i]) \in keys
                                THEN [db[t][i] EXCEPT !.end_block_num = n]
                                ELSE db[t][i]
                        /\ \A k \in keys :
                            \E j \in (Len(db[t]) + 1)..Len(r.db[t]) :
                                /\ NaturalKey(t, r.db[t][j]) = k
                                /\ r.db[t][j].start_block_num = n
                                /\ IsOpen(r.db[t][j])
                                /\ \A i \in 1..Len(r.db[t]) :
                                    (i # j /\ NaturalKey(t, r.db[t][i]) = k)
                                        => ~IsOpen(r.db[t][i])

\* C11 witness: two participants have open rows, and a new version of the
\* first at a later block closes its row where the new row starts, while
\* the row of the second stays open.
C11_Witness ==
    /\ pc = "loop"
    /\ Len(db["participants"]) = 2
    /\ IsOpen(db["participants"][1]) /\ IsOpen(db["participants"][2])
    /\ db["participants"][1].public_key # db["participants"][2].public_key
    /\ \E msg \in Messages(family) :
        LET r == parse_events(db, msg, NoFailure)
        IN  /\ r.path = "NEW" /\ r.result = "ok"
            /\ msg.block.block_num > db["participants"][1].start_block_num
            /\ Len(r.db["participants"]) = 3
            /\ r.db["participants"][1] =
                    [db["participants"][1] EXCEPT !.end_block_num = msg.block.block_num]
            /\ r.db["participants"][2] = db["participants"][2]
            /\ r.db["participants"][3] =
                    [db["participants"][1] EXCEPT !.start_block_num = msg.block.block_num]

\* The block numbers drop_fork is tried at.
ForkPoints == 1..(MaxBlockNum + 1)

\* The store after drop_fork(n) on store d with no statement failing.
Dropped(d, n) == drop_fork(Connect(d, NoFailure), n)

\* C12: drop_fork(N) deletes every versioned row with start_block_num >= N
\* and every block row with block_num >= N, leaves every remaining row that
\* ended at N or later open, and leaves the other rows as they were: the
\* rows that remain are the rows that started below N, in their order,
\* with nothing but end_block_num changed, and that only when it was >= N.
C12_DropForkPost ==
    \A n \in ForkPoints :
        LET after == Dropped(db, n)
        IN  /\ after.ok
            /\ after.db["blocks"] = SelectSeq(db["blocks"], LAMBDA b : b.block_num < n)
            /\ \A t \in VersionedTables :
                LET before == SelectSeq(db[t], LAMBDA r : r.start_block_num < n)
                IN  /\ Len(after.db[t]) = Len(before)
                    /\ \A i \in 1..Len(before) :
                        /\ after.db[t][i].start_block_num < n
                        /\ after.db[t][i].end_block_num >= n => IsOpen(after.db[t][i])
                        /\ after.db[t][i] =
                                IF before[i].end_block_num < n
                                THEN before[i]
                                ELSE [before[i] EXCEPT !.end_block_num = MAX_BLOCK_NUM]

\* C12 witness: a table holds a row that ended below N, a row that started
\* below N and ended at N, and a row that starts at N; drop_fork(N) keeps
\* the first, reopens the second, deletes the third and deletes block N.
C12_Witness ==
    \E n \in ForkPoints : \E t \in VersionedTables :
        /\ Len(db[t]) = 3
        /\ db[t][1].end_block_num < n
        /\ db[t][2].start_block_num < n /\ db[t][2].end_block_num = n
        /\ db[t][3].start_block_num = n
        /\ \E i \in 1..Len(db["blocks"]) : db["blocks"][i].block_num = n
        /\ Dropped(db, n).db[t]
                = <<db[t][1], [db[t][2] EXCEPT !.end_block_num = MAX_BLOCK_NUM]>>
        /\ \A i \in 1..Len(Dropped(db, n).db["blocks"]) :
                Dropped(db, n).db["blocks"][i].block_num < n

\* C13: a call that finds its block a duplicate returns Ok, and a call in
\* which a statement of the store fails returns Err: the caller never gets
\* the same Result for a duplicate and for a failure.
C13_DuplicateIsNotFailure ==
    \A msg \in Messages(family) :
        LET r == parse_events(db, msg, NoFailure)
        IN  /\ r.path = "DUPLICATE" => r.result = "ok"
            /\ \A f \in 0..(r.steps - 1) :
                LET failed == parse_events(db, msg, {f})
                IN  failed.result = "store_err" /\ failed.path # "DUPLICATE"

\* C13 witness: start has returned a store error, and the recorded block
\* can be delivered again with operations, which is a duplicate and Ok.
C13_Witness ==
    /\ pc = "returned"
    /\ returned = "store_err"
    /\ \E msg \in Messages(family) :
        /\ Recorded(db, msg.block)
        /\ TransactionsOf(msg).ok
        /\ TransactionsOf(msg).transactions # <<>>
        /\ parse_events(db, msg, NoFailure).path = "DUPLICATE"
        /\ parse_events(db, msg, NoFailure).result = "ok"
        /\ parse_events(db, msg, {0}).result = "store_err"

\* C14: when a call for a block that is not a duplicate fails with a
\* store error, the block is not recorded afterwards; delivering the same
\* event list again is then not skipped as a duplicate, succeeds and
\* leaves the store a first successful call would have left; delivering it
\* once more is a duplicate and changes nothing.
C14_RetrySafety ==
    \A msg \in Messages(family) :
        LET first == parse_events(db, msg, NoFailure)
            again == parse_events(first.db, msg, NoFailure)
        IN  first.path \in {"NEW", "FORK"} =>
                /\ \A f \in 0..(first.steps - 1) :
                    LET failed == parse_events(db, msg, {f})
                        retry == parse_events(failed.db, msg, NoFailure)
                    IN  /\ failed.result = "store_err"
                        /\ ~Recorded(failed.db, msg.block)
                        /\ retry.path = first.path
                        /\ retry.result = "ok"
                        /\ retry.db = first.db
                /\ again.path = "DUPLICATE"
                /\ again.result = "ok"
                /\ again.db = first.db

\* C14 witness: start has returned a store error; a new block with
\* operations can fail at its last statement, the block insert, after its
\* rows were written to the working copy, and the retry then records the
\* block and the rows.
C14_Witness ==
    /\ pc = "returned"
    /\ returned = "store_err"
    /\ \E msg \in Messages(family) :
        LET first == parse_events(db, msg, NoFailure)
            failed == parse_events(db, msg, {first.steps - 1})
            retry == parse_events(failed.db, msg, NoFailure)
        IN  /\ first.path = "NEW"
            /\ first.steps >= 3
            /\ failed.result = "store_err"
            /\ RowCount(failed.work) > RowCount(db)
            /\ ~Recorded(failed.db, msg.block)
            /\ retry.result = "ok"
            /\ Recorded(retry.db, msg.block)
            /\ RowCount(retry.db) = RowCount(failed.work)

\* C15: the address a make_*_address function returns for a natural key
\* is classified by get_address_type as the entity type of that function,
\* for each of the eight types.  (That two calls with the same key return
\* the same address is how the functions are written: hash reads nothing
\* but its arguments.)
C15_RoundTrip ==
    (origin = "made" /\ addr_type # "none") =>
        /\ addr = MakeAddress(entity, key)
        /\ addr_type = entity

\* C15 witness: a holding address whose key material starts with the hash
\* of the name "organization" has been made and classified as a holding.
C15_Witness ==
    /\ origin = "made"
    /\ entity = "HOLDING"
    /\ key = <<ORGANIZATION, "T">>
    /\ SubSeq(addr, PREFIX_SIZE * 2 + 1, PREFIX_SIZE * 3) = hash(ORGANIZATION, PREFIX_SIZE)
    /\ addr_type = "HOLDING"

\* C16: every made address is 70 characters: the namespace hash at 0..6,
\* the hash of the entity type's name at 6..12, then 58 characters of key
\* material: one hash of 58 characters for a single id, a hash of 22
\* followed by a hash of 36 for a two-part key.
C16_Layout ==
    origin = "made" =>
        /\ Len(addr) = 70
        /\ SubSeq(addr, 1, 6) = get_bond_namespace
        /\ Len(get_bond_namespace) = 6
        /\ \A i \in 1..6 : addr[6 + i] = DigestChar(TypeName(entity), i)
        /\ IF entity \in SingleKeyTypes
           THEN \A i \in 1..58 : addr[12 + i] = DigestChar(key[1], i)
           ELSE /\ \A i \in 1..22 : addr[12 + i] = DigestChar(key[1], i)
                /\ \A i \in 1..36 : addr[34 + i] = DigestChar(key[2], i)

\* C16 witness: a settlement address, made of two different ids, with the
\* second hash starting at character 34.
C16_Witness ==
    /\ origin = "made"
    /\ entity = "SETTLEMENT"
    /\ key = <<"T", ORGANIZATION>>
    /\ Len(addr) = 70
    /\ addr[13] = DigestChar("T", 1)
    /\ addr[35] = "a"

\* C17 (as claimed): classifying an address shorter than 12 characters
\* returns the error value MalformedAddress: no crash, no entity type.
C17_ShortIsMalformed ==
    (addr_type # "none" /\ Len(addr) < PREFIX_SIZE * 2) =>
        addr_type = "MalformedAddress"

\* C18 (as claimed): an address of at least 12 characters whose first 6
\* characters are not the namespace hash of the family is classified as
\* ANOTHER_FAMILY.
C18_ForeignIsAnotherFamily ==
    (/\ addr_type # "none"
     /\ Len(addr) >= PREFIX_SIZE * 2
     /\ SubSeq(addr, 1, PREFIX_SIZE) # get_bond_namespace) =>
        addr_type = "ANOTHER_FAMILY"

\* C19 (as claimed): every state change of a received event list that
\* parse_state_delta_events passes on to parse_transaction has an address
\* that get_address_type classifies as one of the eight entity types,
\* never as ANOTHER_FAMILY.
C19_NoUnrecognizedInterpreted ==
    \A msg \in Messages(family) :
        LET passed == parse_state_delta_events(msg.changes)
        IN  \A i \in DOMAIN passed :
                get_address_type(passed[i].address) \in EntityTypes

\* Every row of table t of store d is in e at the same place, the same
\* but for an end_block_num that is the same or lower.
Kept(d, e, t) ==
    /\ Len(e[t]) >= Len(d[t])
    /\ \A i \in 1..Len(d[t]) :
        /\ [e[t][i] EXCEPT !.end_block_num = 0] = [d[t][i] EXCEPT !.end_block_num = 0]
        /\ e[t][i].end_block_num <= d[t][i].end_block_num

\* C20: a delivery that does not take the fork path (a new block, a
\* duplicate, a failed lookup), whether it succeeds or a statement fails,
\* removes no row of a versioned table: every row is still there
\* afterwards, with its end_block_num the same or lowered, and rows are
\* only added.
C20_RemovedOnlyByFork ==
    \A msg \in Messages(family) :
        \A fail_at \in FailPoints(msg) :
            LET r == parse_events(db, msg, fail_at)
            IN  r.path # "FORK" =>
                    \A t \in VersionedTables : Kept(db, r.db, t)

\* C20 witness: from a store with an organization row, a fork delivery
\* removes that row, while a new block with the same organization keeps
\* it and lowers its end_block_num.
C20_Witness ==
    /\ Len(db.organizations) > 0
    /\ \E msg \in Messages(family) :
        LET r == parse_events(db, msg, NoFailure)
        IN  /\ r.path = "FORK"
            /\ r.result = "ok"
            /\ ~Kept(db, r.db, "organizations")
            /\ Len(r.db.organizations) < Len(db.organizations)
    /\ \E msg \in Messages(family) :
        LET r == parse_events(db, msg, NoFailure)
        IN  /\ r.path = "NEW"
            /\ r.result = "ok"
            /\ Kept(db, r.db, "organizations")
            /\ \E i \in 1..Len(db.organizations) :
                    r.db.organizations[i].end_block_num < db.organizations[i].end_block_num

\* C21: start handles the messages one at a time in the order the
\* validator sent them: the k-th message it receives is the k-th sent,
\* and between receiving it and receiving the next the message was
\* rejected, or its transaction was begun and then committed or aborted;
\* no transaction is open and no message is in hand when recv is called.
C21_SerialInOrder ==
    /\ \A i \in DOMAIN log :
        /\ log[i].seq = ((i - 1) \div 3) + 1
        /\ log[i].ev \in (CASE (i - 1) % 3 = 0 -> {"recv"}
                            [] (i - 1) % 3 = 1 -> {"begin", "rejected"}
                            [] (i - 1) % 3 = 2 -> {"commit", "abort"})
    /\ pc = "loop" => (tx = <<>> /\ current = <<>>)
    /\ tx # <<>> => pc = "in_transaction"

\* C21 witness: the second message is in its transaction, after the first
\* was committed, while the third already waits in the receiver.
C21_Witness ==
    /\ pc = "in_transaction"
    /\ Len(log) = 5
    /\ log[3].ev = "commit"
    /\ current[1].seq = 2
    /\ channel # <<>>
    /\ channel[1].seq = 3
    /\ RowCount(tx[1].work) > RowCount(db)

\* The appliers that have committed.
Committed == {a \in Appliers : appliers[a].pc = "committed"}

\* C22: of two appliers that run for the same block number, not recorded
\* when they start, never both find no recorded block (NEW) and commit;
\* the store holds one row at most for the block number, and it is the
\* store that one committed applier alone would have left: the operations
\* of the block are in it once.
C22_ConcurrentAppliers ==
    /\ \A a, b \in Committed :
        (/\ ~appliers[a].lookup[1].is_some
         /\ ~appliers[b].lookup[1].is_some) => a = b
    /\ Len(BlocksFound(db, ConcBlockNum)) <= 1
    /\ \/ db = ConcBase
       \/ \E a \in Committed :
            db = parse_events(ConcBase, appliers[a].msg, NoFailure).db

\* C22 witness: both appliers looked up before either committed and found
\* no row; one has committed its block with a participant, the other met
\* the primary key at its block insert and was rolled back.
C22_Witness ==
    /\ \A a \in Appliers : appliers[a].lookup # <<>> /\ ~appliers[a].lookup[1].is_some
    /\ appliers[1].pc = "failed"
    /\ appliers[2].pc = "committed"
    /\ appliers[1].msg.changes # <<>>
    /\ appliers[2].msg.changes # <<>>
    /\ appliers[1].msg.block = appliers[2].msg.block
    /\ Recorded(db, appliers[2].msg.block)
    /\ RowCount(db) = RowCount(ConcBase) + 1

\* C23: from every store and for every N, drop_fork(N) run again on the
\* store that drop_fork(N) left changes nothing, in the versioned tables
\* and in the block table.
C23_DropForkIdempotent ==
    \A n \in ForkPoints :
        LET once == Dropped(db, n)
            twice == Dropped(once.db, n)
        IN  once.ok /\ twice.ok /\ twice.db = once.db

\* C23 witness: a store with two blocks from which drop_fork(1) removes
\* rows and blocks, and a second drop_fork(1) finds nothing to do.
C23_Witness ==
    /\ Len(db.blocks) >= 2
    /\ RowCount(db) >= 2
    /\ Dropped(db, 1).db = EmptyDb
    /\ Dropped(Dropped(db, 1).db, 1).db = EmptyDb

\* The three statements of drop_fork, numbered in the order of the code.
RollbackStep(i, d, n) ==
    CASE i = 1 -> DeleteChainRecords(d, n)
      [] i = 2 -> ReopenChainRecords(d, n)
      [] i = 3 -> DeleteBlocks(d, n)

\* The six orders of three statements.
Orders == {o \in [1..3 -> 1..3] : \A i, j \in 1..3 : o[i] = o[j] => i = j}

InOrder(o, d, n) ==
    RollbackStep(o[3], RollbackStep(o[2], RollbackStep(o[1], d, n), n), n)

\* C24: from every store and for every N, the three statements of
\* drop_fork run in any of their six orders leave the store that
\* drop_fork leaves.
C24_RollbackOrder ==
    \A n \in ForkPoints :
        \A o \in Orders : InOrder(o, db, n) = Dropped(db, n).db

\* C24 witness: for N = 2 each of the three statements has something to
\* do: a row that starts at 2 to delete, a row of block 1 closed at 2 to
\* reopen, and block 2 to delete; reopening first and deleting first
\* agree.
C24_Witness ==
    /\ DeleteChainRecords(db, 2) # db
    /\ ReopenChainRecords(DeleteChainRecords(db, 2), 2) # DeleteChainRecords(db, 2)
    /\ DeleteBlocks(db, 2) # db
    /\ \E t \in VersionedTables : \E i \in 1..Len(db[t]) :
            db[t][i].start_block_num = 1 /\ db[t][i].end_block_num = 2
    /\ InOrder(<<2, 1, 3>>, db, 2) = InOrder(<<3, 1, 2>>, db, 2)

\* The rows operation op carries for table t, in the order it carries them.
CarriedRows(op, t) ==
    CASE op.type = "InsertOrganization" /\ t = "organizations" -> <<op.org>>
      [] op.type = "InsertOrganization" /\ t = "authorizations" -> op.authorizations
      [] op.type = "InsertParticipant" /\ t = "participants" -> <<op.participant>>
      [] op.type = "InsertBond" /\ t = "bonds" -> <<op.bond>>
      [] op.type = "InsertBond" /\ t = "corporate_debt_ratings" -> op.corp_dept_ratings
      [] op.type = "InsertHolding" /\ t = "holdings" -> <<op.holding>>
      [] op.type = "InsertOrder" /\ t = "orders" -> <<op.order>>
      [] op.type = "InsertQuote" /\ t = "quotes" -> <<op.quote>>
      [] op.type = "InsertSettlement" /\ t = "settlements" -> <<op.settlement>>
      [] op.type = "InsertReceipt" /\ t = "receipts" -> <<op.receipt>>
      [] OTHER -> <<>>

RECURSIVE CarriedFrom(_, _, _)
\* The rows the operations ops[i], ops[i+1], .. carry for table t, in list
\* order, each with the place of its operation in the list.
CarriedFrom(ops, t, i) ==
    IF i > Len(ops) THEN <<>>
    ELSE [j \in 1..Len(CarriedRows(ops[i], t)) |->
            [row |-> CarriedRows(ops[i], t)[j], by |-> i]]
         \o CarriedFrom(ops, t, i + 1)

\* Store after is store base with the operations ops applied in list
\* order at block number n: the rows added to each table are the rows
\* the operations carry, in list order, and an added row is closed (at n)
\* exactly when an operation later in the list closes it.
ListOrder(base, ops, after, n) ==
    \A t \in VersionedTables :
        LET carried == CarriedFrom(ops, t, 1)
        IN  /\ Len(after[t]) = Len(base[t]) + Len(carried)
            /\ \A i \in 1..Len(carried) :
                LET added == after[t][Len(base[t]) + i]
                IN  /\ [added EXCEPT !.end_block_num = MAX_BLOCK_NUM] = carried[i].row
                    /\ added.end_block_num \in {n, MAX_BLOCK_NUM}
                    /\ added.end_block_num = n <=>
                            \E j \in (carried[i].by + 1)..Len(ops) :
                                Closes(ops[j], t, carried[i].row)

\* C25: on the NEW and FORK paths the operations are those of the state
\* changes of the event list that the namespace filter lets through, in
\* their order, and are applied in that order; a store failure at any statement finds the block row not yet
\* inserted; at the last statement it finds every operation applied; on
\* the FORK path a failure during the rollback finds no operation
\* applied, and one at the first statement after it finds the store
\* rolled back and nothing else.
C25_OrderWithinAdmission ==
    \A msg \in Messages(family) :
        LET r == parse_events(db, msg, NoFailure)
            n == msg.block.block_num
            ops == TransactionsOf(msg).transactions
            base == IF r.path = "FORK" THEN RolledBack(db, n) ELSE db
        IN  (r.path \in {"NEW", "FORK"} /\ r.result = "ok") =>
                /\ Len(ops) = Len(parse_state_delta_events(msg.changes))
                /\ \A i \in 1..Len(ops) :
                        ops[i] = parse_transaction(
                                    parse_state_delta_events(msg.changes)[i],
                                    msg.block).transaction
                /\ ListOrder(base, ops, r.db, n)
                /\ Recorded(r.db, msg.block)
                /\ \A f \in 1..(r.steps - 1) :
                    LET failed == parse_events(db, msg, {f})
                    IN  /\ ~Recorded(failed.work, msg.block)
                        /\ (r.path = "FORK" /\ f <= 3) =>
                                \A t \in VersionedTables :
                                    Len(failed.work[t]) <= Len(db[t])
                        /\ (r.path = "FORK" /\ f = 4) => failed.work = base
                        /\ (r.path = "NEW" /\ f = 1) => failed.work = db
                        /\ f = r.steps - 1 =>
                                \A t \in VersionedTables : failed.work[t] = r.db[t]

\* C25 witness: a fork delivery with two operations of which the order
\* shows: a holding is set and then deleted, so that its row is there and
\* closed, while the rollback removed a row of the abandoned block.
C25_Witness ==
    /\ RowCount(db) > 0
    /\ \E msg \in Messages(family) :
        LET r == parse_events(db, msg, NoFailure)
            ops == TransactionsOf(msg).transactions
        IN  /\ r.path = "FORK"
            /\ r.result = "ok"
            /\ RolledBack(db, msg.block.block_num) # db
            /\ Len(ops) = 2
            /\ ops[1].type = "InsertHolding"
            /\ ops[2].type = "UpdateHolding"
            /\ Closes(ops[2], "holdings", ops[1].holding)
            /\ r.db.holdings[Len(r.db.holdings)].end_block_num = msg.block.block_num
            /\ parse_events(db, [msg EXCEPT !.changes = <<msg.changes[2], msg.changes[1]>>],
                            NoFailure).db # r.db

\* The operation parse_transaction returned for the state change mutation,
\* when it returned one.
Interpreted == operation # <<>> /\ operation[1].ok

\* C26: every row carried by an insert operation that parse_transaction
\* produces for a block has start_block_num equal to the block_num of
\* that block and end_block_num equal to MAX_BLOCK_NUM, for every entity
\* type and for the rows of its sub-records; and an insert operation
\* carries at least one row.
C26_Stamping ==
    (Interpreted /\ operation[1].transaction.type # "UpdateHolding") =>
        /\ \E t \in VersionedTables : CarriedRows(operation[1].transaction, t) # <<>>
        /\ \A t \in VersionedTables :
            LET rows == CarriedRows(operation[1].transaction, t)
            IN  \A i \in 1..Len(rows) :
                    /\ rows[i].start_block_num = at_block.block_num
                    /\ rows[i].end_block_num = MAX_BLOCK_NUM

\* An insert of a bond with two ratings for block 2: three rows, all
\* stamped 2 and MAX_BLOCK_NUM.
C26_Witness ==
    /\ Interpreted
    /\ at_block.block_num = 2
    /\ operation[1].transaction.type = "InsertBond"
    /\ Len(operation[1].transaction.corp_dept_ratings) = 2
    /\ operation[1].transaction.bond.start_block_num = 2
    /\ operation[1].transaction.bond.end_block_num = MAX_BLOCK_NUM
    /\ \A i \in 1..2 :
        /\ operation[1].transaction.corp_dept_ratings[i].start_block_num = 2
        /\ operation[1].transaction.corp_dept_ratings[i].end_block_num = MAX_BLOCK_NUM

\* C27: for an organization with k authorizations (a bond with k
\* corporate-debt ratings) the operation produced carries exactly k
\* authorization (rating) rows, the i-th row being the one of the i-th
\* element of the list, each with the organization_id (bond_id) of the
\* parent and the block_num of the block as start_block_num.
C27_SubRecordExpansion ==
    Interpreted =>
        LET op == operation[1].transaction
            msg == mutation.value.msg
        IN  /\ op.type = "InsertOrganization" =>
                /\ Len(op.authorizations) = Len(msg.authorizations)
                /\ \A i \in 1..Len(msg.authorizations) :
                    /\ op.authorizations[i].participant_public_key =
                            msg.authorizations[i].public_key
                    /\ op.authorizations[i].role = RoleEnum(msg.authorizations[i].role)
                    /\ op.authorizations[i].organization_id = msg.organization_id
                    /\ op.authorizations[i].organization_id = op.org.organization_id
                    /\ op.authorizations[i].start_block_num = at_block.block_num
            /\ op.type = "InsertBond" =>
                /\ Len(op.corp_dept_ratings) = Len(msg.corporate_debt_ratings)
                /\ \A i \in 1..Len(msg.corporate_debt_ratings) :
                    /\ op.corp_dept_ratings[i].agency = msg.corporate_debt_ratings[i].agency
                    /\ op.corp_dept_ratings[i].bond_id = msg.bond_id
                    /\ op.corp_dept_ratings[i].bond_id = op.bond.bond_id
                    /\ op.corp_dept_ratings[i].start_block_num = at_block.block_num

\* An organization with two authorizations of different participants,
\* interpreted for block 2: two rows, in the order of the list.
C27_Witness ==
    /\ Interpreted
    /\ at_block.block_num = 2
    /\ operation[1].transaction.type = "InsertOrganization"
    /\ Len(mutation.value.msg.authorizations) = 2
    /\ mutation.value.msg.authorizations[1].public_key = "pk1"
    /\ mutation.value.msg.authorizations[2].public_key = "pk2"
    /\ Len(operation[1].transaction.authorizations) = 2
    /\ operation[1].transaction.authorizations[1].participant_public_key = "pk1"
    /\ operation[1].transaction.authorizations[2].participant_public_key = "pk2"

\* C28: for a holding address, a state change of kind DELETE yields the
\* close-only operation carrying exactly (address, block_num,
\* MAX_BLOCK_NUM) and succeeds whatever the value bytes are; a state
\* change of any other kind yields, when the bytes decode, an
\* insert-holding operation whose row carries the address of the state
\* change and, when they do not, an error.
C28_HoldingDelete ==
    (operation # <<>> /\ get_address_type(mutation.address) = "HOLDING") =>
        IF mutation.field_type = "DELETE"
        THEN operation[1] =
                [ok |-> TRUE,
                 transaction |-> [type |-> "UpdateHolding",
                                  address |-> mutation.address,
                                  current_block_num |-> at_block.block_num,
                                  max_block_num |-> MAX_BLOCK_NUM]]
        ELSE IF mutation.value.decodes
             THEN /\ operation[1].ok
                  /\ operation[1].transaction.type = "InsertHolding"
                  /\ operation[1].transaction.holding.address = mutation.address
                  /\ operation[1].transaction.holding.owner_organization_id =
                        mutation.value.msg.organization_id
                  /\ operation[1].transaction.holding.asset_id = mutation.value.msg.asset_id
             ELSE operation[1] = ParseErr("decode")

\* A DELETE of a holding whose value bytes do not decode yields the
\* close-only operation.
C28_Witness ==
    /\ Interpreted
    /\ get_address_type(mutation.address) = "HOLDING"
    /\ mutation.field_type = "DELETE"
    /\ ~mutation.value.decodes
    /\ operation[1].transaction.type = "UpdateHolding"
    /\ operation[1].transaction.address = mutation.address

\* Store after keeps every row of store before where it was: every block
\* row as it is, every versioned row with nothing but end_block_num
\* changed, and that only from MAX_BLOCK_NUM to n.
NothingRolledBack(before, after, n) ==
    /\ Len(after["blocks"]) >= Len(before["blocks"])
    /\ \A i \in 1..Len(before["blocks"]) : after["blocks"][i] = before["blocks"][i]
    /\ \A t \in VersionedTables :
        /\ Len(after[t]) >= Len(before[t])
        /\ \A i \in 1..Len(before[t]) :
            \/ after[t][i] = before[t][i]
            \/ /\ before[t][i].end_block_num = MAX_BLOCK_NUM
               /\ after[t][i] = [before[t][i] EXCEPT !.end_block_num = n]

\* C29: the path of an event list that parses is decided by the recorded
\* rows with the block_num of its block alone: NEW when there is none,
\* whatever blocks with larger block_num are recorded, FORK when there is
\* one and its block_id differs, DUPLICATE when there is one and its
\* block_id is the same; on the NEW path nothing is rolled back (every
\* recorded block row and every versioned row stays, the rows that
\* started at a larger block_num included) and the block row is appended.
C29_ShallowForkDetection ==
    \A msg \in Messages(family) :
        LET r == parse_events(db, msg, NoFailure)
            found == BlocksFound(db, msg.block.block_num)
        IN  r.path # "NONE" =>
                /\ Len(found) <= 1
                /\ r.path = "NEW" <=> found = <<>>
                /\ r.path = "FORK" <=>
                        (found # <<>> /\ found[1].block_id # msg.block.block_id)
                /\ r.path = "DUPLICATE" <=>
                        (found # <<>> /\ found[1].block_id = msg.block.block_id)
                /\ r.path = "NEW" =>
                        /\ r.result = "ok"
                        /\ NothingRolledBack(db, r.db, msg.block.block_num)
                        /\ r.db["blocks"] = Append(db["blocks"], msg.block)

\* Block 2 is recorded with a row that started at 2, block 1 is not; an
\* event list for block 1 is admitted as NEW, and block 2 and its row stay.
C29_Witness ==
    /\ BlocksFound(db, 1) = <<>>
    /\ BlocksFound(db, 2) # <<>>
    /\ \E t \in VersionedTables : \E i \in 1..Len(db[t]) : db[t][i].start_block_num = 2
    /\ \E msg \in Messages(family) :
        LET r == parse_events(db, msg, NoFailure)
        IN  /\ msg.block.block_num = 1
            /\ msg.changes # <<>>
            /\ r.path = "NEW"
            /\ r.db # db
            /\ BlocksFound(r.db, 2) = BlocksFound(db, 2)
            /\ BlocksFound(r.db, 1) = <<msg.block>>
            /\ \E t \in VersionedTables : \E i \in 1..Len(r.db[t]) :
                    r.db[t][i].start_block_num = 2

\* Store after is store before with end_block_num = n on the rows of
\* table t that are in keyed and open, and nothing else changed: the same
\* number of rows, each where it was, start_block_num and every other
\* column as before, and every other table as before.
ClosedExactly(before, after, t, keyed, n) ==
    /\ \A u \in Tables \ {t} : after[u] = before[u]
    /\ Len(after[t]) = Len(before[t])
    /\ \A i \in 1..Len(before[t]) :
        IF before[t][i] \in keyed /\ before[t][i].end_block_num = MAX_BLOCK_NUM
        THEN /\ after[t][i] = [before[t][i] EXCEPT !.end_block_num = n]
             /\ after[t][i].start_block_num = before[t][i].start_block_num
        ELSE after[t][i] = before[t][i]

OrganizationIds == {"T", "U"}

PublicKeys == {"pk1", "pk2", "pk3"}

HoldingAddresses ==
    {Under(NamespaceRegexPrefix, make_holding_address("T", asset)) : asset \in {"b1", "b2"}}
        \cup {make_holding_address("T", "b1")}

\* C30: update_organization, update_participant, update_authorization and
\* update_holding called with block number N set end_block_num = N on
\* exactly the rows that match the key given and have end_block_num =
\* MAX_BLOCK_NUM; they leave start_block_num of those rows as it was, add
\* and delete no row, and change no row of another key, no row that is
\* closed already and no other table.
C30_CloseFrame ==
    \A n \in 1..(MaxBlockNum + 1) :
        /\ \A id \in OrganizationIds :
            ClosedExactly(db,
                update_organization(Connect(db, NoFailure), id, n, MAX_BLOCK_NUM).db,
                "organizations",
                {r \in Rows(db, "organizations") : r.organization_id = id}, n)
        /\ \A pk \in PublicKeys :
            ClosedExactly(db,
                update_participant(Connect(db, NoFailure), pk, n, MAX_BLOCK_NUM).db,
                "participants",
                {r \in Rows(db, "participants") : r.public_key = pk}, n)
        /\ \A id \in OrganizationIds : \A pk \in PublicKeys :
            ClosedExactly(db,
                update_authorization(Connect(db, NoFailure), id, pk, n).db,
                "authorizations",
                {r \in Rows(db, "authorizations") :
                    r.organization_id = id /\ r.participant_public_key = pk}, n)
        /\ \A a \in HoldingAddresses :
            ClosedExactly(db,
                update_holding(Connect(db, NoFailure), a, n, MAX_BLOCK_NUM).db,
                "holdings",
                {r \in Rows(db, "holdings") : r.address = a}, n)

\* The store holds a closed and an open row of organization T and an open
\* authorization of (T, pk1): update_organization(T, 3) closes the open
\* row and leaves the closed one and the authorization,
\* update_authorization(T, pk1, 3) closes the authorization and leaves
\* the organizations, and update_authorization(T, pk2, 3) and
\* update_organization(U, 3) change nothing.
C30_Witness ==
    /\ \E i, j \in 1..Len(db["organizations"]) :
        LET after == update_organization(Connect(db, NoFailure), "T", 3, MAX_BLOCK_NUM).db
        IN  /\ db["organizations"][i].end_block_num # MAX_BLOCK_NUM
            /\ db["organizations"][j].end_block_num = MAX_BLOCK_NUM
            /\ after["organizations"][j].end_block_num = 3
            /\ after["organizations"][j].start_block_num =
                    db["organizations"][j].start_block_num
            /\ after["organizations"][i] = db["organizations"][i]
            /\ after["authorizations"] = db["authorizations"]
    /\ \E j \in 1..Len(db["authorizations"]) :
        LET after == update_authorization(Connect(db, NoFailure), "T", "pk1", 3).db
        IN  /\ db["authorizations"][j].end_block_num = MAX_BLOCK_NUM
            /\ after["authorizations"][j].end_block_num = 3
            /\ after["organizations"] = db["organizations"]
    /\ update_authorization(Connect(db, NoFailure), "T", "pk2", 3).db = db
    /\ update_organization(Connect(db, NoFailure), "U", 3, MAX_BLOCK_NUM).db = db

\* The records an insert function is called with: the rows the
\* interpreter makes for a block, and the same rows with a range that is
\* closed already.
NewRecords(t) ==
    CASE t = "blocks" -> Blocks
      [] t = "organizations" ->
            {get_new_organization(m, b) : m \in Payloads("ORGANIZATION"), b \in Blocks}
      [] t = "authorizations" ->
            UNION {Range(get_new_authorization(m.authorizations, b, m.organization_id)) :
                        m \in Payloads("ORGANIZATION"), b \in Blocks}
      [] t = "participants" ->
            {get_new_participant(m, b) : m \in Payloads("PARTICIPANT"), b \in Blocks}
      [] t = "bonds" -> {get_new_bond(m, b) : m \in Payloads("BOND"), b \in Blocks}
      [] t = "corporate_debt_ratings" ->
            UNION {Range(get_new_corporate_debt_ratings(m.corporate_debt_ratings, b, m.bond_id)) :
                        m \in Payloads("BOND"), b \in Blocks}
      [] t = "holdings" ->
            {get_new_holding(m, b, a) :
                m \in Payloads("HOLDING"), b \in Blocks, a \in HoldingAddresses}
      [] t = "orders" -> {get_new_order(m, b) : m \in Payloads("ORDER"), b \in Blocks}
      [] t = "quotes" -> {get_new_quote(m, b) : m \in Payloads("QUOTE"), b \in Blocks}
      [] t = "settlements" ->
            {get_new_settlement(m, b) : m \in Payloads("SETTLEMENT"), b \in Blocks}
      [] t = "receipts" -> {get_new_receipt(m, b) : m \in Payloads("RECEIPT"), b \in Blocks}

Records(t) ==
    IF t = "blocks" THEN NewRecords(t)
    ELSE NewRecords(t) \cup
         {[r EXCEPT !.end_block_num = r.start_block_num + 1] : r \in NewRecords(t)}

\* The insert function of table t called with record.
InsertOf(st, t, record) ==
    CASE t = "blocks" -> insert_block(st, record)
      [] t = "organizations" -> insert_organization(st, record)
      [] t = "authorizations" -> insert_authorization(st, record)
      [] t = "participants" -> insert_participant(st, record)
      [] t = "bonds" -> insert_bond(st, record)
      [] t = "corporate_debt_ratings" -> insert_corp_dept_ratings(st, record)
      [] t = "holdings" -> insert_holding(st, record)
      [] t = "orders" -> insert_order(st, record)
      [] t = "quotes" -> insert_quote(st, record)
      [] t = "settlements" -> insert_settlement(st, record)
      [] t = "receipts" -> insert_receipt(st, record)

\* C31: each insert function (insert_block included), called on a store
\* that does not fail, adds exactly one row to its own table, the last
\* one, whose fields, start_block_num and end_block_num included, equal
\* the record supplied; the rows the table had stay where they were with
\* nothing but end_block_num changed; no row is added to another table.
\* insert_block is called for a block_num that has no row, as its callers
\* call it.
C31_InsertStoresRecord ==
    \A t \in Tables : \A record \in Records(t) :
        LET after == InsertOf(Connect(db, NoFailure), t, record).db
        IN  (t = "blocks" => BlocksFound(db, record.block_num) = <<>>) =>
            /\ Len(after[t]) = Len(db[t]) + 1
            /\ after[t][Len(after[t])] = record
            /\ \A i \in 1..Len(db[t]) :
                \/ after[t][i] = db[t][i]
                \/ /\ t # "blocks"
                   /\ after[t][i] = [db[t][i] EXCEPT !.end_block_num = after[t][i].end_block_num]
            /\ \A u \in Tables \ {t} : Len(after[u]) = Len(db[u])

\* The store holds a row of bond b1; insert_bond called with another row
\* of b1, closed already, adds that row as it is, and the rows of the
\* other tables stay.
C31_Witness ==
    /\ \E r \in Rows(db, "bonds") : r.bond_id = "b1"
    /\ \E record \in Records("bonds") :
        LET after == insert_bond(Connect(db, NoFailure), record).db
        IN  /\ record.bond_id = "b1"
            /\ record.end_block_num # MAX_BLOCK_NUM
            /\ Len(after["bonds"]) = Len(db["bonds"]) + 1
            /\ after["bonds"][Len(after["bonds"])] = record
            /\ after["blocks"] = db["blocks"]

\* C32: whenever parse_events returns Ok on the NEW, FORK or DUPLICATE
\* path, with or without a failure of the store asked for, the block table
\* holds a row with the block_num of the incoming block, and every such
\* row has its block_id; after the FORK path no block row with a larger
\* block_num remains.
C32_SuccessPostcondition ==
    \A msg \in Messages(family) : \A fail_at \in FailPoints(msg) :
        LET r == parse_events(db, msg, fail_at)
            found == BlocksFound(r.db, msg.block.block_num)
        IN  (r.result = "ok" /\ r.path \in {"NEW", "FORK", "DUPLICATE"}) =>
                /\ found # <<>>
                /\ \A i \in 1..Len(found) : found[i] = msg.block
                /\ r.path = "FORK" =>
                        \A b \in Rows(r.db, "blocks") : b.block_num <= msg.block.block_num

\* Blocks 1 and 2 are recorded; a block 1 with another block_id succeeds
\* on the FORK path, after which block 1 has the new block_id and block 2
\* is gone.
C32_Witness ==
    /\ BlocksFound(db, 1) # <<>>
    /\ BlocksFound(db, 2) # <<>>
    /\ \E msg \in Messages(family) :
        LET r == parse_events(db, msg, NoFailure)
        IN  /\ msg.block.block_num = 1
            /\ r.path = "FORK"
            /\ r.result = "ok"
            /\ BlocksFound(db, 1)[1].block_id # msg.block.block_id
            /\ BlocksFound(r.db, 1) = <<msg.block>>
            /\ BlocksFound(r.db, 2) = <<>>

RECURSIVE Replay(_, _)
\* The store after the event lists msgs are applied, in order, to store d.
Replay(d, msgs) ==
    IF msgs = <<>> THEN d
    ELSE Replay(parse_events(d, Head(msgs), NoFailure).db, Tail(msgs))

\* The event lists delivered for blocks below n.
Below(msgs, n) == SelectSeq(msgs, LAMBDA m : m.block.block_num < n)

\* C33: when the blocks were delivered in strictly increasing order of
\* block_num, the store right after drop_fork(N) is the store that
\* applying to an empty store only the delivered blocks with block_num <
\* N gives, for every N.
C33_RollbackRestoresPrefix ==
    \A n \in 1..(MaxBlockNum + 1) :
        Dropped(db, n).db = Replay(EmptyDb, Below(past, n))

\* Blocks 1 and 2 were delivered, block 2 closed a row that block 1 had
\* written and wrote rows of its own; drop_fork(2) removes the latter and
\* reopens the former, which gives the store after block 1 alone.
C33_Witness ==
    /\ Len(past) = 2
    /\ past[1].block.block_num = 1
    /\ past[2].block.block_num = 2
    /\ \E t \in VersionedTables :
        /\ \E i \in 1..Len(db[t]) :
                db[t][i].start_block_num = 1 /\ db[t][i].end_block_num = 2
        /\ \E i \in 1..Len(db[t]) : db[t][i].start_block_num = 2
        /\ Len(Dropped(db, 2).db[t]) < Len(db[t])
    /\ Dropped(db, 2).db = Replay(EmptyDb, <<past[1]>>)
    /\ Dropped(db, 2).db # db
    /\ Dropped(db, 1).db = EmptyDb

\* The block numbers of the rows of the block table.
RecordedBlockNums(d) == {b.block_num : b \in Rows(d, "blocks")}

\* C34: in every state reached by deliveries whose operations the
\* interpreter stamped for the block delivered, start_block_num of every
\* versioned row is the block_num of a row of the block table, and so is
\* every end_block_num other than MAX_BLOCK_NUM.
C34_RowsReferToBlocks ==
    \A t \in VersionedTables : \A r \in Rows(db, t) :
        /\ r.start_block_num \in RecordedBlockNums(db)
        /\ r.end_block_num # MAX_BLOCK_NUM => r.end_block_num \in RecordedBlockNums(db)

\* A delivery failed in the store and was rolled back (start has returned
\* the store error): block 2 alone is recorded, and the store holds a row
\* that block 2 wrote and closed and a row that it wrote and left open.
C34_Witness ==
    /\ returned = "store_err"
    /\ RecordedBlockNums(db) = {2}
    /\ \E t \in VersionedTables :
        /\ \E r \in Rows(db, t) : r.start_block_num = 2 /\ r.end_block_num = 2
        /\ \E r \in Rows(db, t) : r.start_block_num = 2 /\ r.end_block_num = MAX_BLOCK_NUM

\* C35 (as claimed): after a delivery whose one operation is an insert of
\* an organization with its authorizations is applied, the open
\* authorization rows of that organization are exactly the rows of the
\* operation's list: an authorization that was open before and is not in
\* the list is open no longer.
C35_AuthorizationsFollowOrganization ==
    \A msg \in Messages(family) :
        LET r == parse_events(db, msg, NoFailure)
            parsed == TransactionsOf(msg)
        IN  (/\ r.result = "ok"
             /\ r.path \in {"NEW", "FORK"}
             /\ Len(parsed.transactions) = 1
             /\ parsed.transactions[1].type = "InsertOrganization") =>
                LET op == parsed.transactions[1]
                IN  {a \in Rows(r.db, "authorizations") :
                        a.organization_id = op.org.organization_id /\ IsOpen(a)}
                    = Range(op.authorizations)

\* The result of parse_transaction for the state change mutation with its
\* kind replaced by kind.
InterpretedAs(kind) ==
    parse_transaction([mutation EXCEPT !.field_type = kind], at_block)

\* C36: for an address of an entity type other than holding,
\* parse_transaction returns for a DELETE what it returns for a SET with
\* the same value bytes: an insert operation when the bytes decode, the
\* decode error when they do not.
C36_KindIgnoredOutsideHoldings ==
    (operation # <<>> /\ get_address_type(mutation.address) # "HOLDING") =>
        /\ operation[1] = InterpretedAs("SET")
        /\ operation[1] = InterpretedAs("DELETE")
        /\ IF mutation.value.decodes
           THEN /\ operation[1].ok
                /\ operation[1].transaction.type # "UpdateHolding"
                /\ \E t \in VersionedTables :
                        CarriedRows(operation[1].transaction, t) # <<>>
           ELSE operation[1] = ParseErr("decode")

\* A DELETE at a participant address whose bytes decode was interpreted:
\* the operation is the insert of the participant, as for a SET.
C36_Witness ==
    /\ Interpreted
    /\ get_address_type(mutation.address) = "PARTICIPANT"
    /\ mutation.field_type = "DELETE"
    /\ mutation.value.decodes
    /\ operation[1].transaction.type = "InsertParticipant"
    /\ operation[1] = InterpretedAs("SET")

C38_FilterAgreesWithDerivation ==
    origin # "none" =>
        /\ get_namespace_regex_is_match(addr) <=>
                /\ Len(addr) >= PREFIX_SIZE
                /\ SubSeq(addr, 1, PREFIX_SIZE) = get_bond_namespace
        /\ origin = "made" => get_namespace_regex_is_match(addr)

\* C39 (as claimed): the order row that parse_transaction produces from
\* a decoded order carries the bond id of the order in bond_id and the
\* order id of the order in order_id.
C39_OrderFieldMapping ==
    (Interpreted /\ operation[1].transaction.type = "InsertOrder") =>
        /\ operation[1].transaction.order.bond_id = mutation.value.msg.bond_id
        /\ operation[1].transaction.order.order_id = mutation.value.msg.order_id

====
